---- MODULE Spec2Model ----
(***************************************************************************)
(* Nonlinear regression with confidence intervals, as the notebook         *)
(* "Nonlinear regression" computes it: curve_fit(func, x, y, p0) followed  *)
(* by the Student-t interval computation that the notebook says pycse      *)
(* packages as nlinfit(func, x, y, p0, alpha).                             *)
(*                                                                         *)
(* Numbers.  A Python float is modelled in fixed point: the integer v      *)
(* stands for v / 1000.  Values a computation can make non-finite are      *)
(* tagged records (Num, Inf, NaN) with IEEE-754 arithmetic on them.        *)
(***************************************************************************)
EXTENDS Integers, Sequences, FiniteSets

\* ------------------------------------------------------------------ bounds
\* Largest number of data points of a dataset.
MaxN == 4
\* The parameter grid of the minimizer: 0, Step, ..., MaxPar * Step.
MaxPar == 8
\* Iteration budget of the minimizer (curve_fit's maxfev), in grid moves.
MaxFev == 5

\* The fixed-point representation of 1.0, and the minimizer's resolution 0.5.
Unit == 10 ^ 3
Step == Unit \div 2

\* ------------------------------------------------------- float arithmetic
Num(v) == [k |-> "num", v |-> v]
NaN == [k |-> "nan", v |-> 0]
PInf == [k |-> "inf", v |-> 1]
NInf == [k |-> "inf", v |-> -1]

IsNum(a) == a.k = "num"
IsNaN(a) == a.k = "nan"
IsInf(a) == a.k = "inf"
Sign(v) == IF v > 0 THEN 1 ELSE IF v < 0 THEN -1 ELSE 0

\* floor(a * b / Unit), with the larger factor split so that no intermediate
\* exceeds 32 bits.
Abs(v) == IF v < 0 THEN 0 - v ELSE v
MulSplit(a, b) == (a \div Unit) * b + ((a % Unit) * b) \div Unit
Mul(a, b) == IF Abs(a) >= Abs(b) THEN MulSplit(a, b) ELSE MulSplit(b, a)

FNeg(a) == IF IsNaN(a) THEN NaN ELSE [k |-> a.k, v |-> 0 - a.v]

FAdd(a, b) ==
    IF IsNaN(a) \/ IsNaN(b) THEN NaN
    ELSE IF IsInf(a) /\ IsInf(b) THEN (IF a.v = b.v THEN a ELSE NaN)
    ELSE IF IsInf(a) THEN a
    ELSE IF IsInf(b) THEN b
    ELSE Num(a.v + b.v)

FSub(a, b) == FAdd(a, FNeg(b))

\* A product beyond the largest representable magnitude overflows to inf.
Largest == 2 ^ 30
Fits(a, b) ==
    \/ a = 0 \/ b = 0
    \/ IF Abs(a) >= Abs(b) THEN Abs(a) \div Unit + 1 <= Largest \div Abs(b)
       ELSE Abs(b) \div Unit + 1 <= Largest \div Abs(a)

FMul(a, b) ==
    IF IsNaN(a) \/ IsNaN(b) THEN NaN
    ELSE IF IsInf(a) \/ IsInf(b)
         THEN (IF Sign(a.v) * Sign(b.v) = 0 THEN NaN
               ELSE [k |-> "inf", v |-> Sign(a.v) * Sign(b.v)])
    ELSE IF Fits(a.v, b.v) THEN Num(Mul(a.v, b.v))
    ELSE [k |-> "inf", v |-> Sign(a.v) * Sign(b.v)]

\* a <= b and a < b on floats: every comparison with nan is False.
FLe(a, b) ==
    IF IsNaN(a) \/ IsNaN(b) THEN FALSE
    ELSE IF IsInf(a) THEN (a.v = -1 \/ (IsInf(b) /\ b.v = 1))
    ELSE IF IsInf(b) THEN b.v = 1
    ELSE a.v <= b.v

FLt(a, b) ==
    IF IsNaN(a) \/ IsNaN(b) THEN FALSE
    ELSE IF IsInf(a) THEN (a.v = -1 /\ ~(IsInf(b) /\ b.v = -1))
    ELSE IF IsInf(b) THEN b.v = 1
    ELSE a.v < b.v

\* floor(sqrt(w)) for an integer w >= 0, by bisection on [lo, hi).
RECURSIVE Bisect(_, _, _)
Bisect(w, lo, hi) ==
    IF hi - lo <= 1 THEN lo
    ELSE LET mid == (lo + hi) \div 2
         IN  IF mid * mid <= w THEN Bisect(w, mid, hi) ELSE Bisect(w, lo, mid)

ISqrt(w) == Bisect(w, 0, 46341)

\* The square root of a fixed-point value: sqrt(v / Unit) * Unit.
SqrtFix(v) ==
    IF v < 2000000 THEN ISqrt(v * Unit)
    ELSE ISqrt(v \div Unit) * Unit

\* np.sqrt(a), a ** 0.5 on a numpy float: nan for a negative argument.
FSqrt(a) ==
    IF IsNaN(a) THEN NaN
    ELSE IF IsInf(a) THEN (IF a.v = 1 THEN PInf ELSE NaN)
    ELSE IF a.v < 0 THEN NaN
    ELSE Num(SqrtFix(a.v))

RECURSIVE SumSeq(_)
SumSeq(s) == IF s = <<>> THEN 0 ELSE Head(s) + SumSeq(Tail(s))

\* ------------------------------------------------------------- the models
\* func(x, a, b) = a * x / (b + x) (the curve_fit example) and the
\* one-parameter line a * x.
Funcs == {"line", "mm"}
NPars(f) == IF f = "line" THEN 1 ELSE 2

func(f, xi, ps) ==
    IF f = "line" THEN Mul(ps[1], xi)
    ELSE (ps[1] * xi) \div (ps[2] + xi)

\* Whether func is finite at every sample of xs: a * x / (b + x) on a numpy
\* array divides by zero where b + x = 0 and gives inf or nan there, with a
\* warning and no exception.
FuncFinite(f, xs, ps) ==
    f = "line" \/ \A j \in 1..Len(xs) : ps[2] + xs[j] /= 0

\* The partial derivatives of func with respect to each parameter at xi.
Jac(f, xi, ps) ==
    IF f = "line" THEN <<xi>>
    ELSE <<(xi * Unit) \div (ps[2] + xi),
           0 - ((func(f, xi, ps) * Unit) \div (ps[2] + xi))>>

\* The summed squared error of the parameters ps, in units of 1e-6.
SSE(f, xs, ys, ps) ==
    SumSeq([j \in 1..Len(xs) |->
              (ys[j] - func(f, xs[j], ps)) * (ys[j] - func(f, xs[j], ps))])

\* ---------------------------------------------------------- the minimizer
\* scipy.optimize.curve_fit(func, x, y, p0), the least-squares minimizer the
\* notebook calls.  It is not part of the notebook; it is modelled by its
\* contract: a descent on the summed squared error from p0, over a grid of
\* resolution Step, that stops at a local minimum or gives up after MaxFev
\* moves; the covariance estimate is inv(J' J) * SSE / (n - p) at the point
\* reached, filled with inf when n <= p or J' J is singular.  Residuals that
\* are not finite at p0 are not checked for: no step improves on them, the
\* search ends where it started, and the covariance is filled with inf.
InGrid(q) == \A j \in 1..Len(q) : q[j] >= 0 /\ q[j] <= MaxPar * Step

Neighbours(pt) ==
    {q \in {[j \in 1..Len(pt) |-> pt[j] + d[j] * Step] :
               d \in [1..Len(pt) -> {-1, 0, 1}]} : q /= pt /\ InGrid(q)}

LexLess(q, r) ==
    \E j \in 1..Len(q) : q[j] < r[j] /\ \A h \in 1..(j - 1) : q[h] = r[h]

\* The neighbour of pt with the least summed squared error.
BestNeighbour(f, xs, ys, pt) ==
    LET N == Neighbours(pt)
        c == [q \in N |-> SSE(f, xs, ys, q)]
    IN  CHOOSE q \in N :
          \A r \in N : c[q] < c[r] \/ (c[q] = c[r] /\ (q = r \/ LexLess(q, r)))

RECURSIVE Descend(_, _, _, _, _)
Descend(f, xs, ys, pt, k) ==
    IF ~FuncFinite(f, xs, pt) THEN [ok |-> TRUE, pt |-> pt, nfev |-> k]
    ELSE LET q == BestNeighbour(f, xs, ys, pt)
         IN  IF SSE(f, xs, ys, q) >= SSE(f, xs, ys, pt)
             THEN [ok |-> TRUE, pt |-> pt, nfev |-> k]
             ELSE IF k = MaxFev
             THEN [ok |-> FALSE, pt |-> pt, nfev |-> k]
             ELSE Descend(f, xs, ys, q, k + 1)

\* J' J at ps: entry [a][b] is the sum over the data of J[a] * J[b].
JTJ(f, xs, ps) ==
    [a \in 1..Len(ps) |-> [b \in 1..Len(ps) |->
        SumSeq([j \in 1..Len(xs) |->
                  Mul(Jac(f, xs[j], ps)[a], Jac(f, xs[j], ps)[b])])]]

InfMatrix(m) == [a \in 1..m |-> [b \in 1..m |-> PInf]]

\* inv(J' J) for one or two parameters; <<>> when J' J is singular.
InvJTJ(f, xs, ps) ==
    LET M == JTJ(f, xs, ps)
    IN  IF Len(ps) = 1
        THEN (IF M[1][1] <= 0 THEN <<>>
              ELSE <<<<(Unit * Unit) \div M[1][1]>>>>)
        ELSE LET det == (M[1][1] * M[2][2] - M[1][2] * M[2][1]) \div Unit
             IN  IF det <= 0 THEN <<>>
                 ELSE <<<<(M[2][2] * Unit) \div det,
                          (0 - M[1][2] * Unit) \div det>>,
                        <<(0 - M[2][1] * Unit) \div det,
                          (M[1][1] * Unit) \div det>>>>

Covariance(f, xs, ys, ps) ==
    LET m == Len(ps)
        inv == IF FuncFinite(f, xs, ps) THEN InvJTJ(f, xs, ps) ELSE <<>>
    IN  IF Len(ys) <= m \/ inv = <<>> THEN InfMatrix(m)
        ELSE LET s_sq == (SSE(f, xs, ys, ps) \div (Len(ys) - m)) \div Unit
             IN  [a \in 1..m |-> [b \in 1..m |-> Num(Mul(s_sq, inv[a][b]))]]

\* A minimizer that reports failure in its result instead of raising (as
\* scipy.optimize.minimize does): the last iterate comes back as the fit.
ReturnLastIterate(d) ==
    [err |-> "none", pars |-> d.pt, pcov |-> InfMatrix(Len(d.pt))]

\* What curve_fit does with a search that ran out of budget: it raises.
OnBudgetExceeded(d) == [err |-> "RuntimeError", pars |-> <<>>, pcov |-> <<>>]

\* The covariance evaluated at the starting point instead of the optimum.
curve_fit_cov_at_p0(f, xs, ys, p0) ==
    IF Len(p0) > Len(ys)
    THEN [err |-> "TypeError", pars |-> <<>>, pcov |-> <<>>]
    ELSE LET d == Descend(f, xs, ys, p0, 0)
         IN  IF ~d.ok THEN OnBudgetExceeded(d)
             ELSE [err |-> "none", pars |-> d.pt,
                   pcov |-> Covariance(f, xs, ys, p0)]

curve_fit(f, xs, ys, p0) ==
    IF Len(p0) > Len(ys)
    THEN [err |-> "TypeError", pars |-> <<>>, pcov |-> <<>>]
    ELSE LET d == Descend(f, xs, ys, p0, 0)
         IN  IF ~d.ok THEN OnBudgetExceeded(d)
             ELSE [err |-> "none", pars |-> d.pt,
                   pcov |-> Covariance(f, xs, ys, d.pt)]

\* --------------------------------------------------- Student-t quantiles
\* scipy.stats.distributions.t.ppf(q, dof), q in units of 1e-6, for the two
\* significance levels the notebook uses (alpha = 0.05 and alpha = 0.00001):
\* nan for dof <= 0.
T975 == <<12706, 4303, 3182, 2776, 2571, 2447>>
T999995 == <<63661977, 316225, 60397, 27772, 17897, 13555>>

ppf(q, df) ==
    IF df <= 0 THEN NaN
    ELSE IF q = 975000 THEN Num(T975[df])
    ELSE Num(T999995[df])

\* ------------------------------------------------------------ the inputs
\* x = 1, 2, ..., n and y either 2 x exactly ("line") or 2 x / (1 + x)
\* ("sat"), the shape of the notebook's data.
Families == {"line", "sat"}
XData(m) == [j \in 1..m |-> j * Unit]
YData(fam, m) ==
    [j \in 1..m |-> IF fam = "line" THEN 2 * j * Unit
                    ELSE (2 * Unit * j * Unit) \div (Unit + j * Unit)]

Guesses(f) ==
    IF f = "line" THEN {<<Unit>>, <<4 * Unit>>}
    ELSE {<<Unit, Unit>>, <<3 * Unit, 2 * Unit>>, <<4 * Unit, 0>>,
          <<2 * Unit, 0 - Unit>>}

\* alpha in units of 1e-6: 0.05 (the interval cell) and 0.00001 (the
\* nlinfit call).
Alphas == {50000, 10}

\* curve_fit is a function of its arguments: its value on every argument
\* tuple a call can pass, computed once.
FitInputs ==
    UNION {{<<f, XData(m), YData(fam, m), p0>> : p0 \in Guesses(f)} :
             f \in Funcs, fam \in Families, m \in 1..MaxN}

FitOutcome == [a \in FitInputs |-> curve_fit(a[1], a[2], a[3], a[4])]

\* ------------------------------------------------------------- the state
VARIABLES
    model, x, y, initial_guess, alpha,  \* the caller's arguments
    pc,                                 \* where the call is
    nfit,                               \* curve_fit invocations of this call
    pars, pcov,                         \* what curve_fit returned
    n, p, dof, tval,                    \* the interval cell's names
    it, i, SE, pint,                    \* the loop: rounds done, index, lists
    err,                                \* the exception the caller gets
    ret,                                \* the returned (pars, pars_ci, se)
    last                                \* the call before this one

\* The names of the Monte Carlo cells that follow the nlinfit call.
VARIABLES
    p0_mean, p0_se, p0_dist, p1_dist,   \* the sampled parameters
    y5,                                 \* the model's outputs at x = 5
    evals,                              \* calls of func made by the cell
    shown,                              \* the cell's value (mean, std, se[1])
    printed,                            \* the numbers of the printed line
    mcpc                                \* where the Monte Carlo cells are

mcvars == <<p0_mean, p0_se, p0_dist, p1_dist, y5, evals, shown, printed, mcpc>>

\* The Monte Carlo cells have not been run.
MonteCarloNotRun ==
    /\ p0_mean = 0 /\ p0_se = 0 /\ p0_dist = <<>> /\ p1_dist = <<>>
    /\ y5 = <<>> /\ evals = 0 /\ shown = <<>> /\ printed = <<>>
    /\ mcpc = "off"

\* The names of the cells that run 1 / 0 alone and under ignore_exception.
VARIABLES
    wrapped,                            \* is the statement in a with block
    stmt,                               \* the statement of the cell
    ignored,                            \* the class given to ignore_exception
    pending,                            \* the exception in flight in the block
    stdout,                             \* what the cell has printed
    raised,                             \* the exception the cell ends with
    continued,                          \* did execution go on past the statement
    ncell,                              \* cells run so far
    xpc                                 \* where the cell is

ctxvars == <<wrapped, stmt, ignored, pending, stdout, raised, continued,
             ncell, xpc>>

ContextNotRun ==
    /\ wrapped = FALSE /\ stmt = "" /\ ignored = "" /\ pending = "none"
    /\ stdout = <<>> /\ raised = "none" /\ continued = FALSE /\ ncell = 0
    /\ xpc = "off"

\* The names of the cells that build the array of differences of X.
VARIABLES
    X,                                  \* the vector
    DX,                                 \* X[:, None] - X[None, :]
    nX, D, bi, bj,                      \* the double loop: n, D, i, j
    Xi, Xj, XiXj,                       \* the meshgrid arrays, Xi - Xj
    xj, xi, xixj,                       \* the tiled arrays, xi - xj
    ED,                                 \* the expand_dims difference
    bpc                                 \* the cell that runs next

bcvars == <<X, DX, nX, D, bi, bj, Xi, Xj, XiXj, xj, xi, xixj, ED, bpc>>

BroadcastNotRun ==
    /\ X = <<>> /\ DX = <<>> /\ nX = 0 /\ D = <<>> /\ bi = 0 /\ bj = 0
    /\ Xi = <<>> /\ Xj = <<>> /\ XiXj = <<>> /\ xj = <<>> /\ xi = <<>>
    /\ xixj = <<>> /\ ED = <<>> /\ bpc = "off"

\* The names of the cells on arrays of different sizes.
VARIABLES
    x1, x2,                             \* the two vectors
    d12,                                \* x1[:, None] - x2[None, :]
    d21,                                \* x2[:, None] - x1[None, :]
    r12,                                \* x1[None, :] - x2[:, None]
    Dji,                                \* x1[None, :] - x1[:, None]
    Dij,                                \* x1[:, None] - x1[None, :]
    apc                                 \* the cell that runs next

asvars == <<x1, x2, d12, d21, r12, Dji, Dij, apc>>

AsymmetricNotRun ==
    /\ x1 = <<>> /\ x2 = <<>> /\ d12 = <<>> /\ d21 = <<>> /\ r12 = <<>>
    /\ Dji = <<>> /\ Dij = <<>> /\ apc = "off"

\* The names of the cell that interpolates with and without bounds_error.
VARIABLES
    ix, iy,                             \* the data: x, y
    ifunc,                              \* the interpolant
    xq,                                 \* the values it is called with
    shownq,                             \* what the calls have printed
    ierr,                               \* the exception the cell ends with
    kpc                                 \* the statement that runs next

bdvars == <<ix, iy, ifunc, xq, shownq, ierr, kpc>>

BoundsNotRun ==
    /\ ix = <<>> /\ iy = <<>> /\ ifunc = <<>> /\ xq = <<>> /\ shownq = <<>>
    /\ ierr = "none" /\ kpc = "off"

\* The names of the cells that answer "at what t is f = v".
VARIABLES
    t_data, f_data,                     \* the data: t, f
    vq,                                 \* the value asked for (0.2)
    g, ans,                             \* method 1: g and the root found
    g3, ans3,                           \* method 2: g3 and g3(v)
    ig,                                 \* the interpolant of 1 / f
    spc                                 \* the cell that runs next

ivvars == <<t_data, f_data, vq, g, ans, g3, ans3, ig, spc>>

InverseNotRun ==
    /\ t_data = <<>> /\ f_data = <<>> /\ vq = 0 /\ g = <<>> /\ ans = <<>>
    /\ g3 = <<>> /\ ans3 = <<>> /\ ig = <<>> /\ spc = "off"

InterpolationNotRun == BoundsNotRun /\ InverseNotRun

\* Everything that is not part of the regression call.
\* The cells on polynomials: p, np.polyder(p), np.polyint(p), the limits of
\* the definite integral and its value.
VARIABLES p_poly, pd, pint_poly, back, lims, defint, ppc

plvars == <<p_poly, pd, pint_poly, back, lims, defint, ppc>>

PolyNotRun ==
    /\ p_poly = <<>> /\ pd = <<>> /\ pint_poly = <<>> /\ back = <<>>
    /\ lims = <<>> /\ defint = <<>> /\ ppc = "off"

\* The cells on linear regression: the design matrix X and the data Ca, the
\* parameters by np.linalg.lstsq and by the normal equations, and the three
\* outputs of regress.
VARIABLES Xd, Ca, pars_lstsq, p_normal, rp, rpci, rse, rpc

lrvars == <<Xd, Ca, pars_lstsq, p_normal, rp, rpci, rse, rpc>>

RegressNotRun ==
    /\ Xd = <<>> /\ Ca = <<>> /\ pars_lstsq = <<>> /\ p_normal = <<>>
    /\ rp = <<>> /\ rpci = <<>> /\ rse = <<>> /\ rpc = "off"

\* The book workflow: the last event on the repository, the outcome of each
\* step of the run it started, and the runs and deployments so far.
VARIABLES event, outcomes, running, nruns, ndeploys

wfvars == <<event, outcomes, running, nruns, ndeploys>>

WorkflowNotRun ==
    /\ event = <<>> /\ outcomes = <<>> /\ running = FALSE
    /\ nruns = 0 /\ ndeploys = 0

\* The uncertainty cell run as a cell: SERRS and the lines its two loops
\* print.
VARIABLES SERRS, plusminus, ranges

ucvars == <<SERRS, plusminus, ranges>>

CellNotRun == SERRS = <<>> /\ plusminus = <<>> /\ ranges = <<>>

latervars == <<plvars, lrvars, wfvars, ucvars>>
LaterCellsNotRun ==
    PolyNotRun /\ RegressNotRun /\ WorkflowNotRun /\ CellNotRun

others == <<mcvars, ctxvars, bcvars, asvars, bdvars, ivvars, latervars>>
OtherCellsNotRun ==
    /\ MonteCarloNotRun /\ ContextNotRun /\ BroadcastNotRun
    /\ AsymmetricNotRun /\ InterpolationNotRun /\ LaterCellsNotRun

args == <<model, x, y, initial_guess, alpha>>
locals == <<pars, pcov, n, p, dof, tval, it, i, SE, pint>>
fitvars == <<model, x, y, initial_guess, alpha, pc, nfit, pars, pcov, n, p,
             dof, tval, it, i, SE, pint, err, ret, last>>
vars == <<fitvars, others>>

\* The regression has not been called.
FitNotCalled ==
    /\ model = "" /\ x = <<>> /\ y = <<>> /\ initial_guess = <<>> /\ alpha = 0
    /\ pc = "off" /\ nfit = 0
    /\ pars = <<>> /\ pcov = <<>>
    /\ n = 0 /\ p = 0 /\ dof = 0 /\ tval = NaN /\ it = 0 /\ i = 0
    /\ SE = <<>> /\ pint = <<>>
    /\ err = "none" /\ ret = <<>> /\ last = <<>>

\* What each group of cells leaves alone.
notmc == <<fitvars, ctxvars, bcvars, asvars, bdvars, ivvars,
           latervars>>
notctx == <<fitvars, mcvars, bcvars, asvars, bdvars, ivvars,
            latervars>>
notbc == <<fitvars, mcvars, ctxvars, asvars, bdvars, ivvars,
           latervars>>
notas == <<fitvars, mcvars, ctxvars, bcvars, bdvars, ivvars,
           latervars>>
notbd == <<fitvars, mcvars, ctxvars, bcvars, asvars, ivvars,
           latervars>>
notpl == <<fitvars, mcvars, ctxvars, bcvars, asvars, bdvars, ivvars, lrvars,
           wfvars, ucvars>>
notlr == <<fitvars, mcvars, ctxvars, bcvars, asvars, bdvars, ivvars, plvars,
           wfvars, ucvars>>
notwf == <<fitvars, mcvars, ctxvars, bcvars, asvars, bdvars, ivvars, plvars,
           lrvars, ucvars>>
notfit == <<mcvars, ctxvars, bcvars, asvars, bdvars, ivvars, plvars, lrvars,
            wfvars>>
notiv == <<fitvars, mcvars, ctxvars, bcvars, asvars, bdvars,
           latervars>>

\* A list that is created once and shared by every call (a mutable default
\* argument) keeps the entries of the calls before.
StaleList(old) == old

\* The lists a call collects into start empty at every call.
FreshList(old) == <<>>

\* The arguments had curve_fit refined the guess where it stands, writing
\* the optimum into the caller's array.
ArgsOverwritten(xs, ys, p0, popt) == <<xs, ys, popt>>

\* The arguments as the caller sees them once curve_fit has run: Python
\* passes the arrays by reference and curve_fit writes to none of them.
ArgsAfterFit(xs, ys, p0, popt) == <<xs, ys, p0>>

\* The degrees of freedom of a mean, dof = n - 1, used for a fit.
DofOfMean(nn, pp) == nn - 1

\* dof = max(0, n - p)
Dof(nn, pp) == IF nn - pp > 0 THEN nn - pp ELSE 0

\* The critical value with alpha = 0.05 written into the computation.
TValFixedAlpha(al, df) == ppf(1000000 - 50000 \div 2, df)

\* tval = t.ppf(1.0 - alpha / 2., dof)
TVal(al, df) == ppf(1000000 - al \div 2, df)

\* sigma = var ** 0.5
Sigma(var) == FSqrt(var)

\* The half-width alone, as printed by "p +/- ci".
IntervalAsHalfWidth(par, sigma, tv) ==
    <<FNeg(FMul(sigma, tv)), FMul(sigma, tv)>>

\* [p - sigma * tval, p + sigma * tval]
Interval(par, sigma, tv) ==
    <<FSub(Num(par), FMul(sigma, tv)), FAdd(Num(par), FMul(sigma, tv))>>

\* The first row of pcov taken for its diagonal.
FirstRowEntry(cov, k) == cov[1][k]

\* The entry of pcov the loop pairs with parameter k: np.diag(pcov)[k].
DiagEntry(cov, k) == cov[k][k]

\* zip(range(n - 1), pars, np.diag(pcov)): one round short when n = p.
ZipLenShort(nn, ps, cov) ==
    LET a == IF nn - 1 < Len(ps) THEN nn - 1 ELSE Len(ps)
    IN  IF a < Len(cov) THEN a ELSE Len(cov)

\* How many items zip(range(n), pars, np.diag(pcov)) yields.
ZipLen(nn, ps, cov) ==
    LET a == IF nn < Len(ps) THEN nn ELSE Len(ps)
    IN  IF a < Len(cov) THEN a ELSE Len(cov)

\* return (pars, np.array(pint), np.array(SE))
Returned(ps, ci, se) == [pars |-> ps, pars_ci |-> ci, se |-> se]

StartCall(f, xs, ys, p0, al) ==
    /\ model' = f /\ x' = xs /\ y' = ys /\ initial_guess' = p0 /\ alpha' = al
    /\ pc' = "curve_fit"
    /\ nfit' = 0
    /\ pars' = <<>> /\ pcov' = <<>>
    /\ n' = 0 /\ p' = 0 /\ dof' = 0 /\ tval' = NaN /\ it' = 0 /\ i' = 0
    /\ SE' = FreshList(SE) /\ pint' = FreshList(pint)
    /\ err' = "none"
    /\ ret' = <<>>

Init ==
    /\ \E f \in Funcs, fam \in Families, m \in 1..MaxN, al \in Alphas :
         \E p0 \in Guesses(f) :
           /\ model = f /\ x = XData(m) /\ y = YData(fam, m)
           /\ initial_guess = p0 /\ alpha = al
    /\ pc = "curve_fit"
    /\ nfit = 0
    /\ pars = <<>> /\ pcov = <<>>
    /\ n = 0 /\ p = 0 /\ dof = 0 /\ tval = NaN /\ it = 0 /\ i = 0
    /\ SE = <<>> /\ pint = <<>>
    /\ err = "none"
    /\ ret = <<>>
    /\ last = <<>>
    /\ OtherCellsNotRun

\* The caller calls nlinfit(func, x, y, p0, alpha) again.
Call ==
    /\ pc = "idle"
    /\ \E f \in Funcs, fam \in Families, m \in 1..MaxN, al \in Alphas :
         \E p0 \in Guesses(f) :
           StartCall(f, XData(m), YData(fam, m), p0, al)
    /\ last' = <<[args |-> args, err |-> err, ret |-> ret]>>
    /\ UNCHANGED others

\* pars, pcov = curve_fit(func, x, y, p0=initial_guess); an exception of
\* curve_fit is not caught and ends the call.
CurveFit ==
    /\ pc = "curve_fit"
    /\ LET r == FitOutcome[<<model, x, y, initial_guess>>]
           a == ArgsAfterFit(x, y, initial_guess, r.pars)
       IN  /\ nfit' = nfit + 1
           /\ x' = a[1] /\ y' = a[2] /\ initial_guess' = a[3]
           /\ err' = r.err
           /\ pars' = r.pars /\ pcov' = r.pcov
           /\ pc' = IF r.err = "none" THEN "stats" ELSE "idle"
    /\ UNCHANGED <<model, alpha, n, p, dof, tval, it, i, SE, pint, ret, last>>
    /\ UNCHANGED others

\* n = len(y); p = len(pars); dof = max(0, n - p); tval = t.ppf(...)
Stats ==
    /\ pc = "stats"
    /\ n' = Len(y)
    /\ p' = Len(pars)
    /\ dof' = Dof(Len(y), Len(pars))
    /\ tval' = TVal(alpha, Dof(Len(y), Len(pars)))
    /\ pc' = "loop"
    /\ UNCHANGED <<args, nfit, pars, pcov, it, i, SE, pint, err, ret, last>>
    /\ UNCHANGED others

\* One round of: for i, p, var in zip(range(n), pars, np.diag(pcov)).
\* The loop variable p takes the place of the parameter count.
LoopStep ==
    /\ pc = "loop"
    /\ it < ZipLen(n, pars, pcov)
    /\ LET k == it + 1
           sigma == Sigma(DiagEntry(pcov, k))
       IN  /\ it' = k
           /\ i' = k - 1
           /\ p' = pars[k]
           /\ SE' = Append(SE, sigma)
           /\ pint' = Append(pint, Interval(pars[k], sigma, tval))
    /\ UNCHANGED <<args, pc, nfit, pars, pcov, n, dof, tval, err, ret, last>>
    /\ UNCHANGED others

\* The loop is exhausted: the three outputs go back to the caller.
Return ==
    /\ pc = "loop"
    /\ it >= ZipLen(n, pars, pcov)
    /\ ret' = <<Returned(pars, pint, SE)>>
    /\ pc' = "idle"
    /\ UNCHANGED <<args, nfit, locals, err, last>>
    /\ UNCHANGED others

Next == Call \/ CurveFit \/ Stats \/ LoopStep \/ Return

Spec == Init /\ [][Next]_vars

\* ============================================================ the claims
\* The search of the minimizer on every argument tuple, computed once.
SearchOutcome == [a \in FitInputs |-> Descend(a[1], a[2], a[3], a[4], 0)]

Finished == pc = "idle"
HasResult == ret /= <<>>
NPoints == Len(y)
NParams == Len(initial_guess)
Lower(ci) == ci[1]
Upper(ci) == ci[2]
IsFinite(a) == IsNum(a)

\* C1: fit raises an error for every input with n <= p, and returns no
\* result (parameters, intervals, standard errors) in that case.
C1_DegenerateFitRaises ==
    (Finished /\ NPoints <= NParams) => (err /= "none" /\ ~HasResult)

\* C2: in every result that fit returns, lower_i <= param_i <= upper_i for
\* every parameter i, whatever the dof and the confidence level.
C2_IntervalBrackets ==
    HasResult =>
      \A k \in 1..Len(ret[1].pars) :
        /\ FLe(Lower(ret[1].pars_ci[k]), Num(ret[1].pars[k]))
        /\ FLe(Num(ret[1].pars[k]), Upper(ret[1].pars_ci[k]))

\* C3: every interval the loop has produced is exactly
\* [param_i - se_i * t, param_i + se_i * t] with se_i = sqrt(pcov[i][i]) and
\* t = t.ppf(1 - alpha / 2, dof): symmetric about param_i, half-width
\* se_i * t, and made from the diagonal entry i of the covariance alone.
C3_IntervalFormula ==
    \A k \in 1..Len(pint) :
      LET se_k == FSqrt(pcov[k][k])
          half == FMul(se_k, ppf(1000000 - alpha \div 2, dof))
      IN  /\ SE[k] = se_k
          /\ Lower(pint[k]) = FSub(Num(pars[k]), half)
          /\ Upper(pint[k]) = FAdd(Num(pars[k]), half)
          /\ FSub(Upper(pint[k]), Num(pars[k]))
               = FSub(Num(pars[k]), Lower(pint[k]))
          /\ (HasResult => ret[1].pars_ci[k] = pint[k] /\ ret[1].se[k] = SE[k])

C3_Witness ==
    /\ HasResult
    /\ Len(pars) = 2
    /\ IsFinite(SE[2]) /\ SE[2].v > 0
    /\ pcov[1][2] /= pcov[2][2]
    /\ pcov[1][1] /= pcov[2][2]

\* C4: dof is max(0, n - p) with n the number of data points and p the
\* number of fitted parameters; it is negative in no state, and it is n - p
\* in every returned result.
C4_DegreesOfFreedom ==
    /\ dof >= 0
    /\ (pc = "loop" \/ HasResult) =>
         /\ dof = (IF NPoints - Len(pars) > 0 THEN NPoints - Len(pars) ELSE 0)
         /\ Len(pars) = NParams
    /\ HasResult => dof = NPoints - NParams

C4_Witness == HasResult /\ NParams = 2 /\ NPoints = 4 /\ dof = 2

\* Two calls, the one before and this one, that fitted the same model to the
\* same data, reached the same fit, and differ in the confidence level: this
\* one has the higher level (the smaller alpha).
SameFitHigherLevel ==
    /\ Finished /\ HasResult
    /\ last /= <<>> /\ last[1].ret /= <<>>
    /\ last[1].args[1] = model /\ last[1].args[2] = x /\ last[1].args[3] = y
    /\ last[1].ret[1].pars = ret[1].pars
    /\ last[1].ret[1].se = ret[1].se
    /\ alpha < last[1].args[5]

\* C5 as stated (for fits with n > p): raising the confidence level strictly
\* widens the interval of every parameter, one with standard error 0 too.
C5_StrictlyWiderAlways ==
    (SameFitHigherLevel /\ NPoints > NParams) =>
      \A k \in 1..Len(ret[1].pars) :
        /\ FLt(Lower(ret[1].pars_ci[k]), Lower(last[1].ret[1].pars_ci[k]))
        /\ FLt(Upper(last[1].ret[1].pars_ci[k]), Upper(ret[1].pars_ci[k]))

\* C5 as amended: raising the confidence level strictly widens the interval
\* of every parameter whose standard error is positive and finite, and
\* leaves the interval of a parameter whose standard error is 0 at
\* [param_i, param_i].
C5_StrictlyWiderWhenUncertain ==
    SameFitHigherLevel =>
      \A k \in 1..Len(ret[1].pars) :
        /\ (IsFinite(ret[1].se[k]) /\ ret[1].se[k].v > 0) =>
             /\ FLt(Lower(ret[1].pars_ci[k]),
                    Lower(last[1].ret[1].pars_ci[k]))
             /\ FLt(Upper(last[1].ret[1].pars_ci[k]),
                    Upper(ret[1].pars_ci[k]))
        /\ ret[1].se[k] = Num(0) =>
             /\ ret[1].pars_ci[k] = <<Num(ret[1].pars[k]), Num(ret[1].pars[k])>>
             /\ last[1].ret[1].pars_ci[k] = ret[1].pars_ci[k]

C5_Witness ==
    /\ SameFitHigherLevel
    /\ Len(ret[1].pars) = 2
    /\ \A k \in 1..2 : IsFinite(ret[1].se[k]) /\ ret[1].se[k].v > 0

\* C6: when the minimizer's search does not converge within its budget, the
\* call ends with the minimizer's error delivered to the caller; curve_fit
\* has been invoked exactly once, and nothing is returned.
C6_NoConvergenceRaises ==
    /\ nfit <= 1
    /\ (/\ Finished
        /\ NPoints >= NParams
        /\ ~SearchOutcome[<<model, x, y, initial_guess>>].ok)
       => /\ err = "RuntimeError"
          /\ nfit = 1
          /\ ~HasResult
          /\ pars = <<>> /\ SE = <<>> /\ pint = <<>>

C6_Witness ==
    /\ Finished
    /\ model = "mm"
    /\ ~SearchOutcome[<<model, x, y, initial_guess>>].ok
    /\ err = "RuntimeError"

NoiseFreeLine ==
    /\ model = "line"
    /\ x = <<Unit, 2 * Unit, 3 * Unit, 4 * Unit>>
    /\ y = <<2 * Unit, 4 * Unit, 6 * Unit, 8 * Unit>>

C10_ThreeAlignedOutputs ==
    HasResult =>
      /\ DOMAIN ret[1] = {"pars", "pars_ci", "se"}
      /\ Len(ret[1].pars) = NParams
      /\ Len(ret[1].pars_ci) = NParams
      /\ Len(ret[1].se) = NParams
      /\ \A k \in 1..NParams :
           /\ Len(ret[1].pars_ci[k]) = 2
           /\ ret[1].pars[k] = pars[k]
           /\ ret[1].se[k] = FSqrt(pcov[k][k])
           /\ ret[1].pars_ci[k]
                = <<FSub(Num(pars[k]), FMul(ret[1].se[k], tval)),
                    FAdd(Num(pars[k]), FMul(ret[1].se[k], tval))>>
      /\ FuncFinite(model, x, initial_guess) =>
           SSE(model, x, y, ret[1].pars) <= SSE(model, x, y, initial_guess)

C10_Witness ==
    /\ HasResult
    /\ NParams = 2
    /\ ret[1].pars[1] /= ret[1].pars[2]
    /\ ret[1].se[1] /= ret[1].se[2]
    /\ IsFinite(ret[1].se[1])

\* ================================================ Monte Carlo propagation
\* The cells after the nlinfit call: sample each parameter from a normal
\* distribution about its fitted value, evaluate func at x = 5 for the
\* samples, and report the mean and the standard deviation of the outputs.

\* The number of samples of each np.random.normal call (5000 in the cells).
MaxK == 3

\* The standard normal deviates a draw can take.
Deviates == {-1, 0, 1}

\* np.random.normal(mean, se, size): size draws about mean, scaled by se.
Normal(mean, se, size) ==
    {[j \in 1..size |-> mean + d[j] * se.v] : d \in [1..size -> Deviates]}

\* All combinations of a sample of the one with a sample of the other
\* (itertools.product), in row order.
Crossed(a, b) ==
    [j \in 1..(Len(a) * Len(b)) |->
        <<a[((j - 1) \div Len(b)) + 1], b[((j - 1) % Len(b)) + 1]>>]

\* zip(p0_dist, p1_dist): sample j of the one with sample j of the other.
Paired(a, b) ==
    [j \in 1..(IF Len(a) < Len(b) THEN Len(a) ELSE Len(b)) |-> <<a[j], b[j]>>]

\* np.mean(s)
Mean(s) == SumSeq(s) \div Len(s)

\* np.std(s): the square root of the mean squared deviation from the mean.
Std(s) ==
    SqrtFix(SumSeq([j \in 1..Len(s) |->
                     ((s[j] - Mean(s)) * (s[j] - Mean(s))) \div Unit])
              \div Len(s))

\* 2 * np.std(y5), the half-width of the printed line.
TwoSigma(sd) == 2 * sd

\* The standard errors nlinfit returns for a fit.
StdErrs(r) == [k \in 1..Len(r.pars) |-> Sigma(DiagEntry(r.pcov, k))]

\* The fits of func(x, a, b) the Monte Carlo cells are run after: those with
\* more points than parameters, and standard errors that keep b + 5 of every
\* sample positive.
MCFits ==
    {a \in FitInputs :
        /\ a[1] = "mm" /\ Len(a[3]) > NPars("mm")
        /\ FitOutcome[a].err = "none"
        /\ \A k \in 1..2 : /\ IsNum(StdErrs(FitOutcome[a])[k])
                           /\ StdErrs(FitOutcome[a])[k].v < 5 * Unit}

\* The names of the notebook once nlinfit(func, x, y, p0, alpha) returned.
AfterNlinfit(a, al) ==
    LET r == FitOutcome[a]
        df == Dof(Len(a[3]), Len(r.pars))
        ci == [k \in 1..Len(r.pars) |->
                 Interval(r.pars[k], StdErrs(r)[k], TVal(al, df))]
    IN  /\ model = a[1] /\ x = a[2] /\ y = a[3] /\ initial_guess = a[4]
        /\ alpha = al
        /\ pc = "idle" /\ nfit = 1
        /\ pars = r.pars /\ pcov = r.pcov
        /\ n = Len(a[3]) /\ p = r.pars[Len(r.pars)]
        /\ dof = df /\ tval = TVal(al, df)
        /\ it = Len(r.pars) /\ i = Len(r.pars) - 1
        /\ SE = StdErrs(r) /\ pint = ci
        /\ err = "none"
        /\ ret = <<Returned(r.pars, ci, StdErrs(r))>>
        /\ last = <<>>

InitMC ==
    /\ \E a \in MCFits : AfterNlinfit(a, 10)
    /\ ContextNotRun /\ BroadcastNotRun /\ AsymmetricNotRun
    /\ InterpolationNotRun /\ LaterCellsNotRun
    /\ p0_mean = 0 /\ p0_se = 0 /\ p0_dist = <<>> /\ p1_dist = <<>>
    /\ y5 = <<>> /\ evals = 0 /\ shown = <<>> /\ printed = <<>>
    /\ mcpc = "p0"

\* p0_mean = pars[0]; p0_se = se[0]; p0_dist = np.random.normal(..., 5000)
DrawP0 ==
    /\ mcpc = "p0"
    /\ p0_mean' = ret[1].pars[1]
    /\ p0_se' = ret[1].se[1].v
    /\ p0_dist' \in Normal(ret[1].pars[1], ret[1].se[1], MaxK)
    /\ mcpc' = "p1"
    /\ UNCHANGED <<notmc, p1_dist, y5, evals, shown, printed>>

\* p1_dist = np.random.normal(pars[1], se[1], 5000)
DrawP1 ==
    /\ mcpc = "p1"
    /\ p1_dist' \in Normal(ret[1].pars[2], ret[1].se[2], MaxK)
    /\ mcpc' = "y5"
    /\ UNCHANGED <<notmc, p0_mean, p0_se, p0_dist, y5, evals, shown, printed>>

\* One element of y5 = [func(5, p0, p1) for p0, p1 in zip(p0_dist, p1_dist)]
EvalStep ==
    /\ mcpc = "y5"
    /\ Len(y5) < Len(Paired(p0_dist, p1_dist))
    /\ LET s == Paired(p0_dist, p1_dist)[Len(y5) + 1]
       IN  y5' = Append(y5, func("mm", 5 * Unit, s))
    /\ evals' = evals + 1
    /\ UNCHANGED <<notmc, p0_mean, p0_se, p0_dist, p1_dist, shown, printed,
                   mcpc>>

\* The value of the cell: np.mean(y5), np.std(y5), se[1]
Summarize ==
    /\ mcpc = "y5"
    /\ Len(y5) = Len(Paired(p0_dist, p1_dist))
    /\ shown' = <<Mean(y5), Std(y5), ret[1].se[2].v>>
    /\ mcpc' = "print"
    /\ UNCHANGED <<notmc, p0_mean, p0_se, p0_dist, p1_dist, y5, evals,
                   printed>>

\* print(f'At x=5, y={np.mean(y5):1.3f} +- {2 * np.std(y5):1.3f} ...')
Report ==
    /\ mcpc = "print"
    /\ printed' = <<Mean(y5), TwoSigma(Std(y5))>>
    /\ mcpc' = "done"
    /\ UNCHANGED <<notmc, p0_mean, p0_se, p0_dist, p1_dist, y5, evals,
                   shown>>

NextMC == DrawP0 \/ DrawP1 \/ EvalStep \/ Summarize \/ Report

SpecMC == InitMC /\ [][NextMC]_vars

\* C11: the Monte Carlo cell calls func once per sample index, k times for
\* k samples of each parameter; output j is func at x = 5 with sample j of a
\* and sample j of b (paired by index, not crossed); the reported prediction
\* is the mean of the k outputs, the reported uncertainty their standard
\* deviation, and the printed half-width 2 times that standard deviation.
C11_MonteCarloPropagation ==
    /\ evals = Len(y5)
    /\ \A j \in 1..Len(y5) :
         y5[j] = (p0_dist[j] * 5 * Unit) \div (p1_dist[j] + 5 * Unit)
    /\ mcpc \in {"print", "done"} =>
         /\ Len(p0_dist) = MaxK /\ Len(p1_dist) = MaxK
         /\ Len(y5) = MaxK /\ evals = MaxK
         /\ LET m == SumSeq(y5) \div MaxK
                v == SumSeq([j \in 1..MaxK |->
                               ((y5[j] - m) * (y5[j] - m)) \div Unit]) \div MaxK
            IN  /\ shown = <<m, SqrtFix(v), ret[1].se[2].v>>
                /\ \E j \in 1..MaxK : y5[j] <= m
                /\ \E j \in 1..MaxK : m <= y5[j]
                /\ (\A j \in 1..MaxK : y5[j] = y5[1]) => shown[2] = 0
                /\ mcpc = "done" => printed = <<m, 2 * shown[2]>>

C11_Witness ==
    /\ mcpc = "done"
    /\ p0_dist[1] /= p0_dist[2] /\ p1_dist[1] /= p1_dist[2]
    /\ y5[1] /= (p0_dist[1] * 5 * Unit) \div (p1_dist[2] + 5 * Unit)
    /\ printed[2] > 0

\* C13 (for fits with n > p): when func is not finite at some sample of x
\* the call ends in an error and returns nothing, and no returned result
\* holds a standard error or an interval bound that is not finite.
C13_NonFiniteFailsFast ==
    /\ (Finished /\ NPoints > NParams /\ ~FuncFinite(model, x, initial_guess))
         => (err /= "none" /\ ~HasResult)
    /\ (HasResult /\ NPoints > NParams) =>
         \A k \in 1..Len(ret[1].pars) :
           /\ IsFinite(ret[1].se[k])
           /\ IsFinite(Lower(ret[1].pars_ci[k]))
           /\ IsFinite(Upper(ret[1].pars_ci[k]))

\* ======================================================= ignore_exception
\* pycse.utils.ignore_exception: "This context manager wraps code in a
\* try/except/finally clause so you can ignore some errors."  The cell
\* "with ignore_exception(ZeroDivisionError): 1 / 0" prints
\* "caught division by zero" and then "done"; the cell "1 / 0" ends with
\* ZeroDivisionError.

\* The cells of a notebook run.
MaxCells == 4

Stmts == {"1 / 0", "1 / 2", "[][0]"}
Classes == {"ZeroDivisionError", "ArithmeticError", "IndexError"}

\* The exception a statement raises.
Raises(st) ==
    IF st = "1 / 0" THEN "ZeroDivisionError"
    ELSE IF st = "[][0]" THEN "IndexError"
    ELSE "none"

\* str(e)
Message(exc) ==
    IF exc = "ZeroDivisionError" THEN "division by zero"
    ELSE "list index out of range"

\* isinstance(e, cls): ZeroDivisionError is a subclass of ArithmeticError.
IsInstance(exc, cls) ==
    exc = cls \/ (exc = "ZeroDivisionError" /\ cls = "ArithmeticError")

\* A try/finally without the except clause handles nothing.
HandlesNothing(exc, cls) == FALSE

\* except <the classes given to ignore_exception> as e
Handles(exc, cls) == exc /= "none" /\ IsInstance(exc, cls)

StartCell(w, st, cls) ==
    /\ wrapped' = w /\ stmt' = st /\ ignored' = IF w THEN cls ELSE ""
    /\ pending' = "none" /\ stdout' = <<>> /\ raised' = "none"
    /\ continued' = FALSE
    /\ xpc' = IF w THEN "try" ELSE "bare"

InitCtx ==
    /\ FitNotCalled /\ MonteCarloNotRun /\ BroadcastNotRun
    /\ AsymmetricNotRun /\ InterpolationNotRun /\ LaterCellsNotRun
    /\ \E w \in BOOLEAN, st \in Stmts, cls \in Classes :
         /\ wrapped = w /\ stmt = st /\ ignored = IF w THEN cls ELSE ""
         /\ xpc = IF w THEN "try" ELSE "bare"
    /\ pending = "none" /\ stdout = <<>> /\ raised = "none"
    /\ continued = FALSE
    /\ ncell = 1

\* The next cell is run; its output area starts empty.
RunCell ==
    /\ xpc = "end"
    /\ ncell < MaxCells
    /\ \E w \in BOOLEAN, st \in Stmts, cls \in Classes : StartCell(w, st, cls)
    /\ ncell' = ncell + 1
    /\ UNCHANGED notctx

\* The statement alone in a cell: its exception ends the cell.
Bare ==
    /\ xpc = "bare"
    /\ raised' = Raises(stmt)
    /\ continued' = (Raises(stmt) = "none")
    /\ xpc' = "end"
    /\ UNCHANGED <<notctx, wrapped, stmt, ignored, pending, stdout, ncell>>

\* try: the body of the with block runs.
TryBody ==
    /\ xpc = "try"
    /\ pending' = Raises(stmt)
    /\ xpc' = IF Handles(Raises(stmt), ignored) THEN "except" ELSE "finally"
    /\ UNCHANGED <<notctx, wrapped, stmt, ignored, stdout, raised, continued,
                   ncell>>

\* except ... as e: print(f"caught {e}")
Except ==
    /\ xpc = "except"
    /\ stdout' = Append(stdout, <<"caught", Message(pending)>>)
    /\ pending' = "none"
    /\ xpc' = "finally"
    /\ UNCHANGED <<notctx, wrapped, stmt, ignored, raised, continued, ncell>>

\* finally: print("done"); an exception still in flight leaves the block.
Finally ==
    /\ xpc = "finally"
    /\ stdout' = Append(stdout, <<"done">>)
    /\ raised' = pending
    /\ continued' = (pending = "none")
    /\ xpc' = "end"
    /\ UNCHANGED <<notctx, wrapped, stmt, ignored, pending, ncell>>

NextCtx == RunCell \/ Bare \/ TryBody \/ Except \/ Finally

SpecCtx == InitCtx /\ [][NextCtx]_vars

\* C14: "with ignore_exception(ZeroDivisionError): 1 / 0" ends without an
\* exception, having printed "caught division by zero" and then "done", in
\* that order and nothing else, and execution goes on after the block; the
\* statement 1 / 0 alone ends the cell with ZeroDivisionError, prints
\* nothing and nothing after it runs.  While the block is running, the
\* "caught" line is printed before "done" and never after it.
C14_IgnoreException ==
    /\ (/\ xpc = "end" /\ wrapped
        /\ stmt = "1 / 0" /\ ignored = "ZeroDivisionError")
       => /\ raised = "none"
          /\ stdout = <<<<"caught", "division by zero">>, <<"done">>>>
          /\ continued
    /\ (xpc = "end" /\ ~wrapped /\ stmt = "1 / 0")
       => /\ raised = "ZeroDivisionError"
          /\ stdout = <<>>
          /\ ~continued
    /\ \A j \in 1..Len(stdout) :
         stdout[j] = <<"done">> => j = Len(stdout)

C14_Witness ==
    /\ xpc = "end" /\ wrapped /\ stmt = "1 / 0"
    /\ ignored = "ZeroDivisionError"
    /\ stdout = <<<<"caught", "division by zero">>, <<"done">>>>
    /\ ncell = 2

\* =================================================== arrays of differences
\* The notebook on broadcasting: five ways to build D[i][j] = X[i] - X[j],
\* and the differences of two vectors of different sizes.

\* The longest vector.
MaxLen == 3

\* An int64 entry.  The record [h, l] stands for the integer h * 2^53 + l,
\* with l small, so that entries on both sides of 2^53, the largest
\* magnitude up to which float64 holds every integer, are at hand.
Int64(h, l) == [h |-> h, l |-> l]
Values == {Int64(0, 0), Int64(0, 1), Int64(0, 2), Int64(1, 1)}
SmallValues == {Int64(0, 0), Int64(0, 1), Int64(0, 2)}
Vectors(S) == UNION {[1..k -> S] : k \in 1..MaxLen}

\* a - b on int64 (the entries used stay far from the ends of int64).
ISub(a, b) == Int64(a.h - b.h, a.l - b.l)
INeg(a) == Int64(0 - a.h, 0 - a.l)

\* The nearest even integer to l >= 0, a tie going to the multiple of 4:
\* float64 rounding between 2^53 and 2^54, where floats are 2 apart.
RoundToEven(l) ==
    IF l % 2 = 0 THEN l ELSE IF (l - 1) % 4 = 0 THEN l - 1 ELSE l + 1

\* The float64 an int64 is stored as (magnitudes below 2^54): exact up to
\* 2^53, rounded to the nearest even integer beyond.
Float64(v) ==
    IF v.h = 1 /\ v.l > 0 THEN Int64(1, RoundToEven(v.l))
    ELSE IF v.h = -1 /\ v.l < 0 THEN Int64(-1, 0 - RoundToEven(0 - v.l))
    ELSE v

\* Is v within the integers float64 holds exactly
Exact(v) == Float64(v) = v

\* x[None, :] and np.expand_dims(x, axis=0): shape (1, n).
ExpandFirst(v) == <<v>>

\* The new axis put first where it belongs last.
ExpandLastAsFirst(v) == ExpandFirst(v)

\* x[:, None] and np.expand_dims(x, axis=-1): shape (n, 1).
ExpandLast(v) == [r \in 1..Len(v) |-> <<v[r]>>]

Rows(M) == Len(M)
Cols(M) == Len(M[1])
Shape(M) == <<Rows(M), Cols(M)>>

\* numpy's broadcasting rule: two dimensions are compatible when they are
\* equal or one of them is 1.
Compatible(a, b) == a = b \/ a = 1 \/ b = 1
Broadcastable(P, Q) ==
    Compatible(Rows(P), Rows(Q)) /\ Compatible(Cols(P), Cols(Q))

Larger(a, b) == IF a > b THEN a ELSE b

\* The broadcast difference with its operands in the other order: Q - P.
BSubReversed(P, Q) ==
    IF ~Broadcastable(P, Q) THEN <<>>
    ELSE [r \in 1..Larger(Rows(P), Rows(Q)) |->
            [c \in 1..Larger(Cols(P), Cols(Q)) |->
               ISub(Q[IF Rows(Q) = 1 THEN 1 ELSE r][IF Cols(Q) = 1 THEN 1 ELSE c],
                    P[IF Rows(P) = 1 THEN 1 ELSE r][IF Cols(P) = 1 THEN 1 ELSE c])]]

\* P - Q with broadcasting: a dimension of 1 is stretched to the other's;
\* shapes that are not compatible raise ValueError (no array: <<>>).
BSub(P, Q) ==
    IF ~Broadcastable(P, Q) THEN <<>>
    ELSE [r \in 1..Larger(Rows(P), Rows(Q)) |->
            [c \in 1..Larger(Cols(P), Cols(Q)) |->
               ISub(P[IF Rows(P) = 1 THEN 1 ELSE r][IF Cols(P) = 1 THEN 1 ELSE c],
                    Q[IF Rows(Q) = 1 THEN 1 ELSE r][IF Cols(Q) = 1 THEN 1 ELSE c])]]

\* M.T
Transpose(M) == [r \in 1..Cols(M) |-> [c \in 1..Rows(M) |-> M[c][r]]]

\* np.meshgrid(a, b) with the default indexing='xy'.
MeshgridXY(a, b) ==
    <<[r \in 1..Len(b) |-> [c \in 1..Len(a) |-> a[c]]],
      [r \in 1..Len(b) |-> [c \in 1..Len(a) |-> b[r]]]>>

\* np.meshgrid(a, b, indexing='ij')
Meshgrid(a, b) ==
    <<[r \in 1..Len(a) |-> [c \in 1..Len(b) |-> a[r]]],
      [r \in 1..Len(a) |-> [c \in 1..Len(b) |-> b[c]]]>>

\* np.tile(v, (m, 1)): v repeated in m rows.
Tile(v, m) == [r \in 1..m |-> v]

InitBroadcast ==
    /\ FitNotCalled /\ MonteCarloNotRun /\ ContextNotRun /\ AsymmetricNotRun
    /\ InterpolationNotRun /\ LaterCellsNotRun
    /\ X \in Vectors(Values)
    /\ DX = <<>> /\ nX = 0 /\ D = <<>> /\ bi = 0 /\ bj = 0
    /\ Xi = <<>> /\ Xj = <<>> /\ XiXj = <<>> /\ xj = <<>> /\ xi = <<>>
    /\ xixj = <<>> /\ ED = <<>>
    /\ bpc = "DX"

\* DX = X[:, None] - X[None, :]
CellDX ==
    /\ bpc = "DX"
    /\ DX' = BSub(ExpandLast(X), ExpandFirst(X))
    /\ bpc' = "D"
    /\ UNCHANGED <<notbc, X, nX, D, bi, bj, Xi, Xj, XiXj, xj, xi, xixj, ED>>

\* n = len(X); D = np.empty(shape=(n, n)): a float64 array, nothing of which
\* is read before the loops have written it.
CellD ==
    /\ bpc = "D"
    /\ nX' = Len(X)
    /\ D' = <<>>
    /\ bi' = 0 /\ bj' = 0
    /\ bpc' = "loop"
    /\ UNCHANGED <<notbc, X, DX, Xi, Xj, XiXj, xj, xi, xixj, ED>>

\* One round of the inner loop: D[i, j] = X[i] - X[j], stored as float64.
FillD ==
    /\ bpc = "loop"
    /\ bi < nX
    /\ LET v == Float64(ISub(X[bi + 1], X[bj + 1]))
       IN  D' = IF bj = 0 THEN Append(D, <<v>>)
                ELSE [D EXCEPT ![bi + 1] = Append(@, v)]
    /\ IF bj + 1 < nX THEN bj' = bj + 1 /\ bi' = bi
       ELSE bj' = 0 /\ bi' = bi + 1
    /\ UNCHANGED <<notbc, X, DX, nX, Xi, Xj, XiXj, xj, xi, xixj, ED, bpc>>

\* Xi, Xj = np.meshgrid(X, X, indexing='ij'), once the loops are over.
CellMeshgrid ==
    /\ bpc = "loop"
    /\ bi >= nX
    /\ Xi' = Meshgrid(X, X)[1]
    /\ Xj' = Meshgrid(X, X)[2]
    /\ bpc' = "Xi - Xj"
    /\ UNCHANGED <<notbc, X, DX, nX, D, bi, bj, XiXj, xj, xi, xixj, ED>>

\* Xi - Xj
CellXiXj ==
    /\ bpc = "Xi - Xj"
    /\ XiXj' = BSub(Xi, Xj)
    /\ bpc' = "tile"
    /\ UNCHANGED <<notbc, X, DX, nX, D, bi, bj, Xi, Xj, xj, xi, xixj, ED>>

\* xj = np.tile(X, (n, 1))
CellTile ==
    /\ bpc = "tile"
    /\ xj' = Tile(X, nX)
    /\ bpc' = "xi - xj"
    /\ UNCHANGED <<notbc, X, DX, nX, D, bi, bj, Xi, Xj, XiXj, xi, xixj, ED>>

\* xi = xj.T; xi - xj
Cellxixj ==
    /\ bpc = "xi - xj"
    /\ xi' = Transpose(xj)
    /\ xixj' = BSub(Transpose(xj), xj)
    /\ bpc' = "expand_dims"
    /\ UNCHANGED <<notbc, X, DX, nX, D, bi, bj, Xi, Xj, XiXj, xj, ED>>

\* np.expand_dims(X, axis=-1) - np.expand_dims(X, axis=0)
CellExpandDims ==
    /\ bpc = "expand_dims"
    /\ ED' = BSub(ExpandLast(X), ExpandFirst(X))
    /\ bpc' = "done"
    /\ UNCHANGED <<notbc, X, DX, nX, D, bi, bj, Xi, Xj, XiXj, xj, xi, xixj>>

NextBroadcast ==
    \/ CellDX \/ CellD \/ FillD \/ CellMeshgrid \/ CellXiXj \/ CellTile
    \/ Cellxixj \/ CellExpandDims

SpecBroadcast == InitBroadcast /\ [][NextBroadcast]_vars

\* The array with entry [i][j] = v[i] - v[j].
Differences(v) ==
    [r \in 1..Len(v) |-> [c \in 1..Len(v) |-> ISub(v[r], v[c])]]

AllExact(M) == \A r \in 1..Rows(M) : \A c \in 1..Cols(M) : Exact(M[r][c])

\* C15: for every integer vector X the five constructions, the
\* broadcast X[:, None] - X[None, :], the double loop, the meshgrid form,
\* the tiled form and the expand_dims form, are equal entry by entry.
C15_FiveConstructionsEqual ==
    bpc = "done" =>
      /\ DX = Differences(X)
      /\ D = DX /\ XiXj = DX /\ xixj = DX /\ ED = DX

\* What holds of the five constructions: for every integer vector X of
\* length n the broadcast, meshgrid, tiled and expand_dims forms are the same
\* n-by-n array with entry [i][j] = X[i] - X[j]; the double loop holds each
\* entry rounded to float64, and so equals the other four whenever every
\* difference is an integer float64 holds exactly (magnitude at most 2^53).
EqualWhenExact ==
    bpc = "done" =>
      /\ DX = Differences(X)
      /\ Shape(DX) = <<Len(X), Len(X)>>
      /\ XiXj = DX /\ xixj = DX /\ ED = DX
      /\ Shape(D) = Shape(DX)
      /\ \A r \in 1..Len(X) : \A c \in 1..Len(X) :
           D[r][c] = Float64(DX[r][c])
      /\ AllExact(DX) => D = DX

FiveConstructionsExact ==
    /\ bpc = "done"
    /\ Len(X) = MaxLen
    /\ X[1] = Int64(1, 1) /\ X[2] /= X[3]
    /\ AllExact(DX)
    /\ D = DX /\ DX /= Transpose(DX)

\* ------------------------------------------- arrays of different sizes
InitAsymmetric ==
    /\ FitNotCalled /\ MonteCarloNotRun /\ ContextNotRun /\ BroadcastNotRun
    /\ InterpolationNotRun /\ LaterCellsNotRun
    /\ x1 \in Vectors(SmallValues) /\ x2 \in Vectors(SmallValues)
    /\ d12 = <<>> /\ d21 = <<>> /\ r12 = <<>> /\ Dji = <<>> /\ Dij = <<>>
    /\ apc = "d12"

\* x1[:, None] - x2[None, :]  # (3, 1)(1, 2) = (3, 2)
Celld12 ==
    /\ apc = "d12"
    /\ d12' = BSub(ExpandLast(x1), ExpandFirst(x2))
    /\ apc' = "d21"
    /\ UNCHANGED <<notas, x1, x2, d21, r12, Dji, Dij>>

\* x2[:, None] - x1[None, :]  # (2, 1) (1, 3) = (2, 3)
Celld21 ==
    /\ apc = "d21"
    /\ d21' = BSub(ExpandLast(x2), ExpandFirst(x1))
    /\ apc' = "r12"
    /\ UNCHANGED <<notas, x1, x2, d12, r12, Dji, Dij>>

\* x1[None, :] - x2[:, None]  # (1, 3) (2, 1) also broadcasts to (2, 3)
Cellr12 ==
    /\ apc = "r12"
    /\ r12' = BSub(ExpandFirst(x1), ExpandLast(x2))
    /\ apc' = "Dji"
    /\ UNCHANGED <<notas, x1, x2, d12, d21, Dji, Dij>>

\* x1[None, :] - x1[:, None]  # This is D_{ji}
CellDji ==
    /\ apc = "Dji"
    /\ Dji' = BSub(ExpandFirst(x1), ExpandLast(x1))
    /\ apc' = "Dij"
    /\ UNCHANGED <<notas, x1, x2, d12, d21, r12, Dij>>

\* x1[:, None] - x1[None, :]  # This is D_{ij}
CellDij ==
    /\ apc = "Dij"
    /\ Dij' = BSub(ExpandLast(x1), ExpandFirst(x1))
    /\ apc' = "done"
    /\ UNCHANGED <<notas, x1, x2, d12, d21, r12, Dji>>

NextAsymmetric == Celld12 \/ Celld21 \/ Cellr12 \/ CellDji \/ CellDij

SpecAsymmetric == InitAsymmetric /\ [][NextAsymmetric]_vars

\* -M, entry by entry.
Negated(M) == [r \in 1..Rows(M) |-> [c \in 1..Cols(M) |-> INeg(M[r][c])]]

C17_SquareTransposes ==
    apc = "done" =>
      /\ Dji /= <<>> /\ Dij /= <<>>
      /\ Shape(Dji) = <<Len(x1), Len(x1)>> /\ Shape(Dij) = Shape(Dji)
      /\ Broadcastable(ExpandFirst(x1), ExpandLast(x1))
      /\ \A r \in 1..Len(x1) : \A c \in 1..Len(x1) :
           /\ Dij[r][c] = ISub(x1[r], x1[c])
           /\ Dji[r][c] = ISub(x1[c], x1[r])
      /\ Dji = Transpose(Dij)
      /\ (\E r \in 1..Len(x1) : \E c \in 1..Len(x1) : x1[r] /= x1[c])
           => Dji /= Dij

C17_Witness ==
    /\ apc = "done"
    /\ Len(x1) = MaxLen
    /\ x1[1] /= x1[2]
    /\ Dji /= Dij /\ Dji = Transpose(Dij)

\* ============================================================ interpolation
\* The notebook on interpolation.  Its numbers are modelled as exact
\* fractions [n, d] in lowest terms with d > 0; nan is the fraction 0 / 0.
RECURSIVE GCD(_, _)
GCD(a, b) == IF b = 0 THEN a ELSE GCD(b, a % b)

Rat(num, den) ==
    LET s == IF den < 0 THEN -1 ELSE 1
        c == GCD(Abs(num), Abs(den))
    IN  [n |-> (s * num) \div c, d |-> (s * den) \div c]

Whole(k) == [n |-> k, d |-> 1]
RNaN == [n |-> 0, d |-> 0]
IsRNaN(a) == a.d = 0

RAdd(a, b) == Rat(a.n * b.d + b.n * a.d, a.d * b.d)
RSub(a, b) == Rat(a.n * b.d - b.n * a.d, a.d * b.d)
RMul(a, b) == Rat(a.n * b.n, a.d * b.d)
RDiv(a, b) == Rat(a.n * b.d, a.d * b.n)
RLt(a, b) == a.n * b.d < b.n * a.d
RLe(a, b) == a.n * b.d <= b.n * a.d

\* np.argsort(x) for distinct entries: the index of the k-th smallest.
ArgSort(xs) ==
    [k \in 1..Len(xs) |->
       CHOOSE j \in 1..Len(xs) :
         Cardinality({h \in 1..Len(xs) : RLt(xs[h], xs[j])}) = k - 1]

\* interp1d(x, y, bounds_error=...): linear, with copies of x and y sorted
\* by x (assume_sorted=False) and fill_value nan.
interp1d(xs, ys, be) ==
    [x |-> [k \in 1..Len(xs) |-> xs[ArgSort(xs)[k]]],
     y |-> [k \in 1..Len(xs) |-> ys[ArgSort(xs)[k]]],
     bounds_error |-> be]

\* Is q outside [min(x), max(x)]
OutOfRange(gi, q) == RLt(q, gi.x[1]) \/ RLt(gi.x[Len(gi.x)], q)

\* Every query answered from the first segment.
HiIndexFirst(gi, q) == 2

\* The upper knot of the segment q falls in: np.searchsorted(x, q), kept
\* within 1 .. len(x) - 1 (counting from 0).
HiIndex(gi, q) ==
    CHOOSE k \in 2..Len(gi.x) :
      /\ RLe(q, gi.x[k])
      /\ \A h \in 2..(k - 1) : ~RLe(q, gi.x[h])

\* slope * (q - x_lo) + y_lo
Linear(gi, q) ==
    LET hi == HiIndex(gi, q)
        lo == hi - 1
        slope == RDiv(RSub(gi.y[hi], gi.y[lo]), RSub(gi.x[hi], gi.x[lo]))
    IN  RAdd(RMul(slope, RSub(q, gi.x[lo])), gi.y[lo])

\* An out-of-range query answered with the value at the nearest end.
FillEdge(gi, q) ==
    IF RLt(q, gi.x[1]) THEN gi.y[1] ELSE gi.y[Len(gi.y)]

\* What an out-of-range query gets when no error is raised: fill_value, nan.
Fill(gi, q) == RNaN

\* gi(qs), for a list of queries: the bounds of all of them are checked
\* first.
Calling(gi, qs) ==
    IF gi.bounds_error /\ \E j \in 1..Len(qs) : OutOfRange(gi, qs[j])
    THEN [err |-> "ValueError", y |-> <<>>]
    ELSE [err |-> "none",
          y |-> [j \in 1..Len(qs) |->
                   IF OutOfRange(gi, qs[j]) THEN Fill(gi, qs[j])
                   ELSE Linear(gi, qs[j])]]

\* Strictly increasing and strictly decreasing lists of whole numbers.
Increasing(S, k) ==
    {[j \in 1..k |-> Whole(s[j])] :
       s \in {u \in [1..k -> S] : \A j \in 1..(k - 1) : u[j] < u[j + 1]}}
Decreasing(S, k) ==
    {[j \in 1..k |-> Whole(s[j])] :
       s \in {u \in [1..k -> S] : \A j \in 1..(k - 1) : u[j] > u[j + 1]}}

\* ------------------------------------------------ bounds_error=False
\* The longest list of queries.
MaxQ == 2

\* x = [4, 6], y = [3, 2] and data like them.
BoundsData ==
    UNION {Increasing({4, 5, 6}, k) \X [1..k -> {Whole(2), Whole(3)}] :
             k \in 2..3}

\* 4.65, 4.2 and 9 of the cell, and values at and below the ends.
Queries == {Whole(3), Whole(4), Rat(93, 20), Rat(21, 5), Whole(6), Whole(9)}
QueryLists == UNION {[1..k -> Queries] : k \in 1..MaxQ}

InitBounds ==
    /\ FitNotCalled /\ MonteCarloNotRun /\ ContextNotRun /\ BroadcastNotRun
    /\ AsymmetricNotRun /\ InverseNotRun /\ LaterCellsNotRun
    /\ \E xy \in BoundsData : ix = xy[1] /\ iy = xy[2]
    /\ xq \in QueryLists
    /\ ifunc = <<>> /\ shownq = <<>> /\ ierr = "none"
    /\ kpc = "interp1d"

\* ifunc = interp1d(x, y)
BuildDefault ==
    /\ kpc = "interp1d"
    /\ ifunc' = interp1d(ix, iy, TRUE)
    /\ kpc' = "print"
    /\ UNCHANGED <<notbd, ix, iy, xq, shownq, ierr>>

\* print(ifunc(4.65)): the first query alone; an exception ends the cell.
CallDefault ==
    /\ kpc = "print"
    /\ LET r == Calling(ifunc, <<xq[1]>>)
       IN  /\ ierr' = r.err
           /\ shownq' = IF r.err = "none" THEN Append(shownq, r.y) ELSE shownq
           /\ kpc' = IF r.err = "none" THEN "interp1d 2" ELSE "end"
    /\ UNCHANGED <<notbd, ix, iy, ifunc, xq>>

\* ifunc = interp1d(x, y, bounds_error=False)
BuildNoError ==
    /\ kpc = "interp1d 2"
    /\ ifunc' = interp1d(ix, iy, FALSE)
    /\ kpc' = "print 2"
    /\ UNCHANGED <<notbd, ix, iy, xq, shownq, ierr>>

\* print(ifunc([4.65, 5.01, 4.2, 9]))
CallNoError ==
    /\ kpc = "print 2"
    /\ LET r == Calling(ifunc, xq)
       IN  /\ ierr' = r.err
           /\ shownq' = IF r.err = "none" THEN Append(shownq, r.y) ELSE shownq
    /\ kpc' = "end"
    /\ UNCHANGED <<notbd, ix, iy, ifunc, xq>>

NextBounds == BuildDefault \/ CallDefault \/ BuildNoError \/ CallNoError

SpecBounds == InitBounds /\ [][NextBounds]_vars

\* Is q outside [min(x), max(x)] of the data of the cell
Outside(q) ==
    \/ \A k \in 1..Len(ix) : RLt(q, ix[k])
    \/ \A k \in 1..Len(ix) : RLt(ix[k], q)

\* C18: the call of interp1d(x, y, bounds_error=False) on a list of queries
\* raises nothing and returns one value per query in the order of the list:
\* nan for a query outside [min(x), max(x)], and
\* y_k + (y_k+1 - y_k)(q - x_k) / (x_k+1 - x_k) for a query q within
\* [x_k, x_k+1]; the call of the default interp1d(x, y) on a query outside
\* the range raises and prints nothing.
C18_NoBoundsError ==
    /\ (kpc \in {"interp1d 2", "print 2"} \/ (kpc = "end" /\ Len(shownq) = 2))
         => ierr = "none"
    /\ (kpc = "end" /\ Len(shownq) = 2) =>
         /\ Len(shownq[2]) = Len(xq)
         /\ \A j \in 1..Len(xq) :
              IF Outside(xq[j]) THEN IsRNaN(shownq[2][j])
              ELSE \E k \in 1..(Len(ix) - 1) :
                     /\ RLe(ix[k], xq[j]) /\ RLe(xq[j], ix[k + 1])
                     /\ shownq[2][j]
                          = RAdd(iy[k],
                                 RDiv(RMul(RSub(iy[k + 1], iy[k]),
                                           RSub(xq[j], ix[k])),
                                      RSub(ix[k + 1], ix[k])))
    /\ (kpc \notin {"interp1d", "print"} /\ Outside(xq[1])) =>
         /\ kpc = "end" /\ ierr = "ValueError" /\ shownq = <<>>
    /\ (kpc = "end" /\ ~Outside(xq[1])) => Len(shownq) = 2

C18_Witness ==
    /\ kpc = "end" /\ Len(shownq) = 2
    /\ Len(ix) = 3 /\ iy[2] /= iy[3]
    /\ Len(xq) = MaxQ
    /\ xq[1] = Rat(93, 20) /\ xq[MaxQ] = Whole(9)
    /\ IsRNaN(shownq[2][MaxQ]) /\ ~IsRNaN(shownq[2][1])

\* ------------------------------------------------ inverting an interpolant
\* The most knots in the data.
MaxKnots == 3

\* l[::-1], the value of the expression: a new list.
Reversed(l) == [j \in 1..Len(l) |-> l[Len(l) + 1 - j]]

\* The list reversed where it stands, as l.reverse() leaves it.
AfterReverseInPlace(l) == Reversed(l)

\* The list l after l[::-1] has been evaluated: slicing copies.
AfterSlice(l) == l

\* The first trial point of fsolve(func, x0) for func(t) = v - gi(t): the
\* slope of func is taken by a forward difference at x0, and the first step
\* is the full Newton step x0 - func(x0) / slope.
FirstTrial(gi, v, x0) ==
    LET lo == CHOOSE k \in 1..(Len(gi.x) - 1) :
                RLe(gi.x[k], x0) /\ RLt(x0, gi.x[k + 1])
        slope == RDiv(RSub(gi.y[lo], gi.y[lo + 1]),
                      RSub(gi.x[lo + 1], gi.x[lo]))
    IN  RSub(x0, RDiv(RSub(v, Linear(gi, x0)), slope))

\* The t at which the broken line through the data of gi takes the value v.
Root(gi, v) ==
    LET k == CHOOSE h \in 1..(Len(gi.x) - 1) :
               \/ RLe(gi.y[h + 1], v) /\ RLe(v, gi.y[h])
               \/ RLe(gi.y[h], v) /\ RLe(v, gi.y[h + 1])
    IN  RAdd(gi.x[k],
             RDiv(RMul(RSub(v, gi.y[k]), RSub(gi.x[k + 1], gi.x[k])),
                  RSub(gi.y[k + 1], gi.y[k])))

\* ans, = fsolve(func, x0) with func(t) = v - gi(t).  func raises the
\* ValueError of gi at every point outside the data, and fsolve evaluates it
\* at x0, just right of x0 and at the first trial point; from a trial point
\* within the data the iteration is taken to reach the root.
fsolve(gi, v, x0) ==
    IF OutOfRange(gi, x0) \/ ~RLt(x0, gi.x[Len(gi.x)])
    THEN [err |-> "ValueError", x |-> RNaN]
    ELSE IF OutOfRange(gi, FirstTrial(gi, v, x0))
    THEN [err |-> "ValueError", x |-> RNaN]
    ELSE [err |-> "none", x |-> Root(gi, v)]

\* t = [0.5, 1, 3, 6] and increasing lists like it around the guess 2;
\* f = [0.6065, 0.3679, 0.0498, 0.0025] and decreasing lists like it.
InverseData ==
    UNION {{tt \in Increasing({0, 1, 3, 4, 6}, k) :
              RLe(tt[1], Whole(2)) /\ RLt(Whole(2), tt[k])}
             \X Decreasing(1..5, k) : k \in 2..MaxKnots}

\* The values asked for: 0.2 of the cells, and others.
Wanted == {Rat(j, 2) : j \in 2..10}

InitInverse ==
    /\ FitNotCalled /\ MonteCarloNotRun /\ ContextNotRun /\ BroadcastNotRun
    /\ AsymmetricNotRun /\ BoundsNotRun /\ LaterCellsNotRun
    /\ \E tf \in InverseData : t_data = tf[1] /\ f_data = tf[2]
    /\ vq \in {v \in Wanted : /\ RLe(f_data[Len(f_data)], v)
                              /\ RLe(v, f_data[1])}
    /\ g = <<>> /\ ans = <<>> /\ g3 = <<>> /\ ans3 = <<>> /\ ig = <<>>
    /\ spc = "g"

\* g = interp1d(t, f)
CellG ==
    /\ spc = "g"
    /\ g' = interp1d(t_data, f_data, TRUE)
    /\ spc' = "method 1"
    /\ UNCHANGED <<notiv, t_data, f_data, vq, ans, g3, ans3, ig>>

\* initial_guess = 2; ans, = fsolve(func, initial_guess)
Method1 ==
    /\ spc = "method 1"
    /\ ans' = fsolve(g, vq, Whole(2))
    /\ spc' = "method 2"
    /\ UNCHANGED <<notiv, t_data, f_data, vq, g, g3, ans3, ig>>

\* g3 = interp1d(f[::-1], t[::-1]); print(g3(0.2))
Method2 ==
    /\ spc = "method 2"
    /\ g3' = interp1d(Reversed(f_data), Reversed(t_data), TRUE)
    /\ ans3' = Calling(g3', <<vq>>)
    /\ t_data' = AfterSlice(t_data)
    /\ f_data' = AfterSlice(f_data)
    /\ spc' = "ig"
    /\ UNCHANGED <<notiv, vq, g, ans, ig>>

\* ig = interp1d(t, 1.0 / np.array(f))
CellIg ==
    /\ spc = "ig"
    /\ ig' = interp1d(t_data,
                      [k \in 1..Len(f_data) |-> RDiv(Whole(1), f_data[k])],
                      TRUE)
    /\ spc' = "done"
    /\ UNCHANGED <<notiv, t_data, f_data, vq, g, ans, g3, ans3>>

NextInverse == CellG \/ Method1 \/ Method2 \/ CellIg

SpecInverse == InitInverse /\ [][NextInverse]_vars

C19_AgreeWhenSolved ==
    spc \in {"ig", "done"} =>
      /\ ans3.err = "none"
      /\ ~OutOfRange(g, ans3.y[1])
      /\ Linear(g, ans3.y[1]) = vq
      /\ ans.err = "none" => ans.x = ans3.y[1]

IsIncreasing(l) == \A j \in 1..(Len(l) - 1) : RLt(l[j], l[j + 1])

\* C20: evaluating f[::-1] and t[::-1] changes neither t nor f at any step;
\* g3 is built on new lists holding f and t in reverse; after g3 is built t
\* is still increasing and f decreasing, and ig, built afterwards, gets the
\* increasing t with 1 / f in the order of t; reversing a reversed list
\* gives the list back.
C20_SlicingCopies ==
    /\ [][t_data' = t_data /\ f_data' = f_data]_vars
    /\ [](spc \in {"ig", "done"} =>
            /\ g3.x = Reversed(f_data) /\ g3.y = Reversed(t_data)
            /\ IsIncreasing(t_data) /\ IsIncreasing(Reversed(f_data))
            /\ Reversed(t_data) /= t_data
            /\ Reversed(Reversed(t_data)) = t_data
            /\ Reversed(Reversed(f_data)) = f_data)
    /\ [](spc = "done" =>
            /\ ig.x = t_data
            /\ \A k \in 1..Len(t_data) : ig.y[k] = RDiv(Whole(1), f_data[k]))

C20_Witness ==
    /\ spc = "done" /\ Len(t_data) = MaxKnots
    /\ g3.x[1] = f_data[MaxKnots] /\ g3.y[1] = t_data[MaxKnots]
    /\ ig.x[1] = t_data[1]

\* ============================================================== polynomials
\* np.polyder, np.polyint and np.polyval on coefficient lists, highest power
\* first.  The coefficients are binary floating-point numbers: every
\* operation gives the exact result rounded to the nearest number with
\* MantissaBits significant bits, ties to the even one (float64 does the
\* same with 53 bits).  Values are held as exact fractions.

\* The significant bits of a floating-point number in the model.
MantissaBits == 4

\* The longest coefficient list.
MaxCoeffs == 3

RECURSIVE TwoTo(_)
TwoTo(k) == IF k = 0 THEN 1 ELSE 2 * TwoTo(k - 1)

\* The exponent e with 2^(MantissaBits - 1) <= r / 2^e < 2^MantissaBits,
\* for r > 0, searched from e upwards or downwards.
RECURSIVE Exponent(_, _)
Exponent(r, e) ==
    LET lo == IF e >= 0 THEN Whole(TwoTo(MantissaBits - 1 + e))
              ELSE Rat(TwoTo(MantissaBits - 1), TwoTo(0 - e))
    IN  IF RLt(r, lo) THEN Exponent(r, e - 1)
        ELSE IF RLe(RAdd(lo, lo), r) THEN Exponent(r, e + 1)
        ELSE e

\* Round to nearest, ties to even.
fl(r) ==
    IF r.n = 0 THEN Whole(0)
    ELSE LET a == [n |-> Abs(r.n), d |-> r.d]
             e == Exponent(a, 0)
             s == IF e >= 0 THEN Rat(a.n, a.d * TwoTo(e))
                  ELSE Rat(a.n * TwoTo(0 - e), a.d)
             m == s.n \div s.d
             twice == 2 * (s.n - m * s.d)
             up == twice > s.d \/ (twice = s.d /\ m % 2 = 1)
             mm == IF up THEN m + 1 ELSE m
             v == IF e >= 0 THEN Whole(mm * TwoTo(e)) ELSE Rat(mm, TwoTo(0 - e))
         IN  IF r.n < 0 THEN RSub(Whole(0), v) ELSE v

\* The gap between neighbouring floating-point numbers at r.
Ulp(r) ==
    IF r.n = 0 THEN Whole(0)
    ELSE LET e == Exponent([n |-> Abs(r.n), d |-> r.d], 0)
         IN  IF e >= 0 THEN Whole(TwoTo(e)) ELSE Rat(1, TwoTo(0 - e))

RAbs(r) == [n |-> Abs(r.n), d |-> r.d]

\* np.polyint(p, k=1): the integration constant 1.
polyint_k1(c) ==
    [k \in 1..(Len(c) + 1) |->
       IF k <= Len(c) THEN fl(RDiv(c[k], Whole(Len(c) + 1 - k)))
       ELSE Whole(1)]

\* np.polyint(p): p / arange(len(p), 0, -1) with the constant 0 appended.
polyint(c) ==
    [k \in 1..(Len(c) + 1) |->
       IF k <= Len(c) THEN fl(RDiv(c[k], Whole(Len(c) + 1 - k)))
       ELSE Whole(0)]

\* np.polyder(p): p[:-1] * arange(len(p) - 1, 0, -1).
polyder(c) ==
    [k \in 1..(Len(c) - 1) |-> fl(RMul(c[k], Whole(Len(c) - k)))]

\* np.polyval(p, x): y = 0; for pv in p: y = y * x + pv.
RECURSIVE polyval(_, _)
polyval(c, xx) ==
    IF c = <<>> THEN Whole(0)
    ELSE fl(RAdd(fl(RMul(polyval(SubSeq(c, 1, Len(c) - 1), xx), xx)),
                 c[Len(c)]))

\* p = [1, 8, 16] and lists like it; the last entry has an odd mantissa in
\* the upper half of its binade.
Coeffs == {Whole(0), Whole(1), Whole(8), Whole(16), Whole(-3),
           Whole(TwoTo(MantissaBits) - 3)}
Polys == UNION {[1..k -> Coeffs] : k \in 1..MaxCoeffs}

\* The limits x = 1 and x = 2 of the cell, and others.
Limits == {Whole(0), Whole(1), Whole(2)}

InitPoly ==
    /\ FitNotCalled /\ MonteCarloNotRun /\ ContextNotRun /\ BroadcastNotRun
    /\ AsymmetricNotRun /\ InterpolationNotRun /\ RegressNotRun
    /\ WorkflowNotRun /\ CellNotRun
    /\ p_poly \in Polys
    /\ lims \in Limits \X Limits
    /\ pd = <<>> /\ pint_poly = <<>> /\ back = <<>> /\ defint = <<>>
    /\ ppc = "polyder"

\* pd = np.polyder(p)
CellPolyder ==
    /\ ppc = "polyder"
    /\ pd' = polyder(p_poly)
    /\ ppc' = "polyint"
    /\ UNCHANGED <<notpl, p_poly, pint_poly, back, lims, defint>>

\* pint = np.polyint(p)
CellPolyint ==
    /\ ppc = "polyint"
    /\ pint_poly' = polyint(p_poly)
    /\ ppc' = "definite"
    /\ UNCHANGED <<notpl, p_poly, pd, back, lims, defint>>

\* np.polyval(pint, 2) - np.polyval(pint, 1)
CellDefinite ==
    /\ ppc = "definite"
    /\ defint' = <<fl(RSub(polyval(pint_poly, lims[2]),
                           polyval(pint_poly, lims[1])))>>
    /\ ppc' = "back"
    /\ UNCHANGED <<notpl, p_poly, pd, pint_poly, back, lims>>

\* np.polyder(np.polyint(p)), the way back
CellBack ==
    /\ ppc = "back"
    /\ back' = polyder(pint_poly)
    /\ ppc' = "done"
    /\ UNCHANGED <<notpl, p_poly, pd, pint_poly, lims, defint>>

NextPoly == CellPolyder \/ CellPolyint \/ CellDefinite \/ CellBack

SpecPoly == InitPoly /\ [][NextPoly]_vars

RECURSIVE RPow(_, _)
RPow(r, k) == IF k = 0 THEN Whole(1) ELSE RMul(r, RPow(r, k - 1))

\* The integral of the polynomial c from a to b in exact arithmetic, term by
\* term: c_k (b^j - a^j) / j for the term of power j - 1.
RECURSIVE Integral(_, _, _)
Integral(c, a, b) ==
    IF c = <<>> THEN Whole(0)
    ELSE RAdd(RDiv(RMul(c[1], RSub(RPow(b, Len(c)), RPow(a, Len(c)))),
                   Whole(Len(c))),
              Integral(Tail(c), a, b))

\* The size of the terms of the antiderivative of c at xx:
\* the sum of |c_k| |xx|^j / j.
RECURSIVE TermSize(_, _)
TermSize(c, xx) ==
    IF c = <<>> THEN Whole(0)
    ELSE RAdd(RDiv(RMul(RAbs(c[1]), RPow(RAbs(xx), Len(c))), Whole(Len(c))),
              TermSize(Tail(c), xx))

\* Does the quotient c / j need no rounding
ExactQuotient(c, j) == fl(RDiv(c, Whole(j))) = RDiv(c, Whole(j))

\* Did no operation of the cells round: the quotients of polyint, and the
\* products, sums and the difference of the definite integral.
RECURSIVE HornerExact(_, _)
HornerExact(c, xx) ==
    \/ c = <<>>
    \/ LET acc == polyval(SubSeq(c, 1, Len(c) - 1), xx)
       IN  /\ HornerExact(SubSeq(c, 1, Len(c) - 1), xx)
           /\ fl(RMul(acc, xx)) = RMul(acc, xx)
           /\ fl(RAdd(RMul(acc, xx), c[Len(c)])) = RAdd(RMul(acc, xx), c[Len(c)])

NothingRounded ==
    /\ \A k \in 1..Len(p_poly) : ExactQuotient(p_poly[k], Len(p_poly) + 1 - k)
    /\ HornerExact(pint_poly, lims[1]) /\ HornerExact(pint_poly, lims[2])
    /\ LET d == RSub(polyval(pint_poly, lims[2]), polyval(pint_poly, lims[1]))
       IN  fl(d) = d

\* C21 as stated: the last coefficient of np.polyint(p) is 0,
\* np.polyder(np.polyint(p)) equals p, and the definite integral of p from a
\* to b equals polyval(pint, b) - polyval(pint, a).
C21_AntiderivativeExact ==
    ppc = "done" =>
      /\ Len(pint_poly) = Len(p_poly) + 1
      /\ pint_poly[Len(pint_poly)] = Whole(0)
      /\ back = p_poly
      /\ defint[1] = Integral(p_poly, lims[1], lims[2])

\* C21, as the floating-point arithmetic gives it: np.polyint(p) has one
\* coefficient more than p, the last one 0 and the others p_k / j rounded;
\* np.polyder(np.polyint(p)) has the length of p and each coefficient is
\* within one unit in the last place of p_k, and is p_k itself where p_k / j
\* needs no rounding; polyval(pint, b) - polyval(pint, a) is the integral of
\* p from a to b when no operation rounds, and otherwise differs from it by
\* at most 2^(4 - MantissaBits) times the size of the terms of the
\* antiderivative at a and b.
C21_Antiderivative ==
    /\ ppc \in {"definite", "back", "done"} =>
         /\ Len(pint_poly) = Len(p_poly) + 1
         /\ pint_poly[Len(pint_poly)] = Whole(0)
         /\ \A k \in 1..Len(p_poly) :
              pint_poly[k] = fl(RDiv(p_poly[k], Whole(Len(p_poly) + 1 - k)))
    /\ ppc = "done" =>
         /\ Len(back) = Len(p_poly)
         /\ \A k \in 1..Len(p_poly) :
              /\ RLe(RAbs(RSub(back[k], p_poly[k])), Ulp(p_poly[k]))
              /\ ExactQuotient(p_poly[k], Len(p_poly) + 1 - k)
                   => back[k] = p_poly[k]
         /\ NothingRounded
              => defint[1] = Integral(p_poly, lims[1], lims[2])
         /\ RLe(RMul(RAbs(RSub(defint[1],
                               Integral(p_poly, lims[1], lims[2]))),
                     Whole(TwoTo(MantissaBits))),
                RMul(Whole(16), RAdd(TermSize(p_poly, lims[1]),
                                     TermSize(p_poly, lims[2]))))

\* The cells of the notebook, p = [1, 8, 16] from 1 to 2, and a list whose
\* way back is exact although its quotient by 3 is not.
C21_Witness ==
    /\ ppc = "done"
    /\ p_poly = <<Whole(1), Whole(8), Whole(16)>>
    /\ lims = <<Whole(1), Whole(2)>>
    /\ back = p_poly
    /\ ~ExactQuotient(p_poly[1], 3)
    /\ defint[1] /= Integral(p_poly, lims[1], lims[2])

\* A coefficient that does not come back: 13 / 3 rounds to 4.5, and 3 * 4.5
\* rounds to 14.
C21_NotBack ==
    /\ ppc = "done"
    /\ p_poly[1] = Whole(TwoTo(MantissaBits) - 3) /\ Len(p_poly) = 3
    /\ back[1] /= p_poly[1]

\* ======================================================== linear regression
\* X has two columns and the arithmetic of the solution is exact; standard
\* errors and intervals are floats of the kind used for the nonlinear fit.

\* The most rows of X.
MaxRows == 3

RECURSIVE Dot(_, _)
Dot(u, v) ==
    IF u = <<>> THEN Whole(0)
    ELSE RAdd(RMul(Head(u), Head(v)), Dot(Tail(u), Tail(v)))

Column(M, j) == [r \in 1..Len(M) |-> M[r][j]]

\* The determinant of X.T @ X.
Gram(M) ==
    RSub(RMul(Dot(Column(M, 1), Column(M, 1)), Dot(Column(M, 2), Column(M, 2))),
         RMul(Dot(Column(M, 1), Column(M, 2)), Dot(Column(M, 1), Column(M, 2))))

FullColumnRank(M) == Gram(M).n /= 0

\* np.linalg.inv(X.T @ X)
InvXTX(M) ==
    LET a == Dot(Column(M, 1), Column(M, 1))
        b == Dot(Column(M, 1), Column(M, 2))
        d == Dot(Column(M, 2), Column(M, 2))
    IN  <<<<RDiv(d, Gram(M)), RDiv(RSub(Whole(0), b), Gram(M))>>,
          <<RDiv(RSub(Whole(0), b), Gram(M)), RDiv(a, Gram(M))>>>>

\* np.linalg.inv(X.T @ X) @ X.T @ Ca
NormalEquations(M, yy) ==
    LET inv == InvXTX(M)
        xty == <<Dot(Column(M, 1), yy), Dot(Column(M, 2), yy)>>
    IN  <<Dot(inv[1], xty), Dot(inv[2], xty)>>

\* The parameters with the two columns of X taken for one another.
lstsq_swapped(M, yy) == <<NormalEquations(M, yy)[2], NormalEquations(M, yy)[1]>>

\* np.linalg.lstsq(X, Ca)[0] for X of full column rank: the minimiser of
\* |X b - Ca|^2, found by an orthogonal factorisation of X: the second
\* column is made orthogonal to the first, Ca is projected on it, and the
\* rest of Ca on the first column.
lstsq(M, yy) ==
    LET c1 == Column(M, 1)
        c2 == Column(M, 2)
        mu == RDiv(Dot(c2, c1), Dot(c1, c1))
        q2 == [r \in 1..Len(M) |-> RSub(c2[r], RMul(mu, c1[r]))]
        b2 == RDiv(Dot(yy, q2), Dot(q2, q2))
        rest == [r \in 1..Len(M) |-> RSub(yy[r], RMul(b2, c2[r]))]
    IN  <<RDiv(Dot(rest, c1), Dot(c1, c1)), b2>>

\* A fraction as a float, and a float of the interpolation cells for it.
ToFloat(r) == Num((r.n * Unit) \div r.d)

\* regress(A, y, alpha): b from np.linalg.lstsq(A, y); sigma2 = sum of the
\* squared errors / (n - k); se = sqrt(diag(sigma2 * inv(A.T @ A)));
\* bint = b -/+ t.ppf(1 - alpha / 2, n - k) * se.
regress(M, yy, al) ==
    LET b == lstsq(M, yy)
        nn == Len(yy)
        k == Len(b)
        errors == [r \in 1..nn |-> RSub(yy[r], Dot(M[r], b))]
        sse == Dot(errors, errors)
        inv == InvXTX(M)
        se == [j \in 1..k |->
                 IF nn - k = 0
                 THEN FSqrt(FMul(IF sse.n = 0 THEN NaN ELSE PInf,
                                 ToFloat(inv[j][j])))
                 ELSE FSqrt(ToFloat(RMul(RDiv(sse, Whole(nn - k)),
                                         inv[j][j])))]
        sT == ppf(1000000 - al \div 2, nn - k)
        bint == [j \in 1..k |->
                   <<FSub(ToFloat(b[j]), FMul(sT, se[j])),
                     FAdd(ToFloat(b[j]), FMul(sT, se[j]))>>]
    IN  <<b, bint, se>>

\* Rows [t, 1] as in X = [time, time**0], and a row [1, 0].
DesignRows == {<<Whole(0), Whole(1)>>, <<Whole(1), Whole(1)>>,
               <<Whole(2), Whole(1)>>, <<Whole(1), Whole(0)>>}
Designs ==
    {M \in UNION {[1..m -> DesignRows] : m \in 2..MaxRows} : FullColumnRank(M)}
Observations == {Whole(0), Whole(1), Whole(3)}

InitRegress ==
    /\ FitNotCalled /\ MonteCarloNotRun /\ ContextNotRun /\ BroadcastNotRun
    /\ AsymmetricNotRun /\ InterpolationNotRun /\ PolyNotRun
    /\ WorkflowNotRun /\ CellNotRun
    /\ Xd \in Designs
    /\ Ca \in [1..Len(Xd) -> Observations]
    /\ pars_lstsq = <<>> /\ p_normal = <<>>
    /\ rp = <<>> /\ rpci = <<>> /\ rse = <<>>
    /\ rpc = "lstsq"

\* pars, _, _, _ = np.linalg.lstsq(X, Ca, rcond=None)
CellLstsq ==
    /\ rpc = "lstsq"
    /\ pars_lstsq' = lstsq(Xd, Ca)
    /\ rpc' = "normal"
    /\ UNCHANGED <<notlr, Xd, Ca, p_normal, rp, rpci, rse>>

\* np.linalg.inv(X.T @ X) @ X.T @ Ca
CellNormal ==
    /\ rpc = "normal"
    /\ p_normal' = NormalEquations(Xd, Ca)
    /\ rpc' = "regress"
    /\ UNCHANGED <<notlr, Xd, Ca, pars_lstsq, rp, rpci, rse>>

\* rp, rpci, se = regress(X, Ca, 0.05)
CellRegress ==
    /\ rpc = "regress"
    /\ LET r == regress(Xd, Ca, 50000)
       IN  rp' = r[1] /\ rpci' = r[2] /\ rse' = r[3]
    /\ rpc' = "done"
    /\ UNCHANGED <<notlr, Xd, Ca, pars_lstsq, p_normal>>

NextRegress == CellLstsq \/ CellNormal \/ CellRegress

SpecRegress == InitRegress /\ [][NextRegress]_vars

\* Does the row <<lo, hi>> of rpci bracket the parameter b
Brackets(row, b) ==
    /\ IsNum(row[1]) /\ IsNum(row[2])
    /\ row[1].v <= ToFloat(b).v /\ ToFloat(b).v <= row[2].v

C22_SameVector ==
    rpc = "done" =>
      /\ Len(rp) = 2 /\ Len(rpci) = 2
      /\ pars_lstsq = p_normal /\ rp = pars_lstsq
      /\ Len(Ca) > Len(rp) => \A j \in 1..Len(rp) : Brackets(rpci[j], rp[j])

C22_Overdetermined ==
    /\ rpc = "done" /\ Len(Ca) = 3
    /\ \A j \in 1..2 : Brackets(rpci[j], rp[j]) /\ rpci[j][1].v < rpci[j][2].v
    /\ rp[1].d /= 1

\* ========================================================== book workflow
\* .github/workflows/deploy.yml as GitHub Actions runs it.

\* The most runs of the workflow followed.
MaxRuns == 3

\* steps: of the job build-and-deploy-book, in the order of the file.
Steps == <<"checkout", "Set up Python", "Install dependencies",
           "Build the book", "GitHub Pages action">>

\* What can happen on the repository.
Events == {[name |-> "push", ref |-> "refs/heads/master"],
           [name |-> "push", ref |-> "refs/heads/dev"],
           [name |-> "push", ref |-> "refs/tags/v1"],
           [name |-> "pull_request", ref |-> "refs/heads/master"]}

\* on: push: branches: [master]
Triggers(e) == e.name = "push" /\ e.ref = "refs/heads/master"

\* if: always() on a step: it runs whatever happened before.
always(prior) == TRUE

\* The condition of a step that has no if: of its own, success(): no step
\* before it has failed.
success(prior) == \A k \in 1..Len(prior) : prior[k] = "success"

InitWorkflow ==
    /\ FitNotCalled /\ MonteCarloNotRun /\ ContextNotRun /\ BroadcastNotRun
    /\ AsymmetricNotRun /\ InterpolationNotRun /\ PolyNotRun /\ RegressNotRun
    /\ CellNotRun
    /\ event = <<>> /\ outcomes = <<>> /\ running = FALSE
    /\ nruns = 0 /\ ndeploys = 0

\* An event arrives while no run is in progress; a run of the single job of
\* the matrix starts if the event matches on:.
Event ==
    /\ ~running
    /\ nruns < MaxRuns
    /\ \E e \in Events :
         /\ event' = e
         /\ IF Triggers(e)
            THEN outcomes' = <<>> /\ running' = TRUE /\ nruns' = nruns + 1
            ELSE UNCHANGED <<outcomes, running, nruns>>
    /\ UNCHANGED <<notwf, ndeploys>>

\* The next step of the run: skipped if its condition is false; otherwise
\* it is executed and succeeds or fails.
RunStep ==
    /\ running /\ Len(outcomes) < Len(Steps)
    /\ \E result \in {"success", "failure"} :
         LET o == IF success(outcomes) THEN result ELSE "skipped"
         IN  /\ outcomes' = Append(outcomes, o)
             /\ ndeploys' = IF Len(outcomes) + 1 = Len(Steps) /\ o = "success"
                            THEN ndeploys + 1 ELSE ndeploys
    /\ UNCHANGED <<notwf, event, running, nruns>>

\* The job is over once every step has been run or skipped.
Conclude ==
    /\ running /\ Len(outcomes) = Len(Steps)
    /\ running' = FALSE
    /\ UNCHANGED <<notwf, event, outcomes, nruns, ndeploys>>

NextWorkflow == Event \/ RunStep \/ Conclude

SpecWorkflow == InitWorkflow /\ [][NextWorkflow]_vars

\* Was step k of the current run executed
Executed(k) == k <= Len(outcomes) /\ outcomes[k] /= "skipped"

\* C23: a run is started by a push to the master branch and by nothing
\* else; the steps of a run are taken in the order checkout, set up Python,
\* install dependencies, build the book, deploy, each executed only after
\* all steps before it; and the deploy step is never executed in a run in
\* which an earlier step, the book build among them, has failed.
C23_DeployOnlyAfterBuild ==
    /\ [][nruns' /= nruns
            => /\ event'.name = "push" /\ event'.ref = "refs/heads/master"
               /\ nruns' = nruns + 1 /\ outcomes' = <<>>]_vars
    /\ [](running => (event.name = "push" /\ event.ref = "refs/heads/master"))
    /\ [][outcomes' /= outcomes
            => (outcomes' = <<>> \/ (/\ Len(outcomes') = Len(outcomes) + 1
                                     /\ SubSeq(outcomes', 1, Len(outcomes))
                                          = outcomes))]_vars
    /\ [](\A k \in 1..Len(Steps) :
            Executed(k) => \A h \in 1..(k - 1) : outcomes[h] = "success")
    /\ [](Steps[4] = "Build the book" /\ Steps[5] = "GitHub Pages action")
    /\ []((\E h \in 1..4 : h <= Len(outcomes) /\ outcomes[h] = "failure")
            => ~Executed(5))
    /\ [][ndeploys' /= ndeploys
            => /\ ndeploys' = ndeploys + 1
               /\ \A h \in 1..Len(Steps) : outcomes'[h] = "success"]_vars

\* A run whose book build failed has gone through its last step, after an
\* earlier run that deployed.
C23_Witness ==
    /\ nruns = 2 /\ ndeploys = 1
    /\ Len(outcomes) = 5
    /\ outcomes[4] = "failure" /\ outcomes[5] = "skipped"

\* ====================================================== the uncertainty cell
\* The cell with both of its printing loops, run after the cell that fits:
\* pars and pcov are what curve_fit returned there.

\* The fits the cell can follow: curve_fit returned, n >= len(pars).
CellFits ==
    {a \in FitInputs : /\ FitOutcome[a].err = "none"
                       /\ Len(a[3]) >= Len(FitOutcome[a].pars)}

InitCell ==
    /\ ContextNotRun /\ BroadcastNotRun /\ AsymmetricNotRun
    /\ InterpolationNotRun /\ MonteCarloNotRun
    /\ PolyNotRun /\ RegressNotRun /\ WorkflowNotRun
    /\ \E a \in CellFits :
         /\ model = a[1] /\ x = a[2] /\ y = a[3] /\ initial_guess = a[4]
         /\ pars = FitOutcome[a].pars /\ pcov = FitOutcome[a].pcov
    /\ alpha = 0 /\ nfit = 1
    /\ n = 0 /\ p = 0 /\ dof = 0 /\ tval = NaN /\ it = 0 /\ i = 0
    /\ SE = <<>> /\ pint = <<>> /\ err = "none" /\ ret = <<>> /\ last = <<>>
    /\ SERRS = <<>> /\ plusminus = <<>> /\ ranges = <<>>
    /\ pc = "alpha"

\* alpha = 0.05; n = len(y); p = len(pars); dof = max(0, n - p);
\* tval = t.ppf(1.0 - alpha / 2., dof)
CellStats ==
    /\ pc = "alpha"
    /\ alpha' = 50000
    /\ n' = Len(y)
    /\ p' = Len(pars)
    /\ dof' = Dof(Len(y), Len(pars))
    /\ tval' = TVal(50000, Dof(Len(y), Len(pars)))
    /\ pc' = "SERRS"
    /\ UNCHANGED <<model, x, y, initial_guess, nfit, pars, pcov, it, i, SE,
                   pint, err, ret, last, ucvars, notfit>>

\* SERRS = np.sqrt(np.diag(pcov))
CellSerrs ==
    /\ pc = "SERRS"
    /\ SERRS' = [k \in 1..Len(pcov) |-> FSqrt(DiagEntry(pcov, k))]
    /\ pc' = "loop 1"
    /\ UNCHANGED <<args, nfit, pars, pcov, n, p, dof, tval, it, i, SE, pint,
                   err, ret, last, plusminus, ranges, notfit>>

\* One round of: for i in range(2): p = pars[i]; sigma = SERRS[i];
\* ci = sigma * tval; print(p +/- ci).  pars[i] raises IndexError when pars
\* has no entry i, and the exception ends the cell.
Loop1Step ==
    /\ pc = "loop 1"
    /\ it < 2
    /\ LET k == it + 1
       IN  IF k > Len(pars)
           THEN /\ err' = "IndexError"
                /\ pc' = "end"
                /\ UNCHANGED <<it, i, p, plusminus>>
           ELSE /\ it' = k
                /\ i' = k - 1
                /\ p' = pars[k]
                /\ plusminus' = Append(plusminus,
                                       [p |-> pars[k],
                                        ci |-> FMul(SERRS[k], tval)])
                /\ UNCHANGED <<err, pc>>
    /\ UNCHANGED <<args, nfit, pars, pcov, n, dof, tval, SE, pint, ret, last,
                   SERRS, ranges, notfit>>

\* range(2) is exhausted: on to the second loop.
Loop1End ==
    /\ pc = "loop 1"
    /\ it >= 2
    /\ it' = 0
    /\ pc' = "loop 2"
    /\ UNCHANGED <<args, nfit, pars, pcov, n, p, dof, tval, i, SE, pint, err,
                   ret, last, ucvars, notfit>>

\* One round of: for i, p, var in zip(range(n), pars, np.diag(pcov)):
\* sigma = var**0.5; print(p, [p - sigma * tval, p + sigma * tval]).
Loop2Step ==
    /\ pc = "loop 2"
    /\ it < ZipLen(n, pars, pcov)
    /\ LET k == it + 1
           sigma == Sigma(DiagEntry(pcov, k))
       IN  /\ it' = k
           /\ i' = k - 1
           /\ p' = pars[k]
           /\ ranges' = Append(ranges,
                               [i |-> k - 1, p |-> pars[k],
                                ci |-> FMul(sigma, tval),
                                range |-> Interval(pars[k], sigma, tval)])
    /\ UNCHANGED <<args, pc, nfit, pars, pcov, n, dof, tval, SE, pint, err,
                   ret, last, SERRS, plusminus, notfit>>

\* zip is exhausted: the cell is over.
Loop2End ==
    /\ pc = "loop 2"
    /\ it >= ZipLen(n, pars, pcov)
    /\ pc' = "end"
    /\ UNCHANGED <<args, nfit, pars, pcov, n, p, dof, tval, it, i, SE, pint,
                   err, ret, last, ucvars, notfit>>

NextCell ==
    CellStats \/ CellSerrs \/ Loop1Step \/ Loop1End \/ Loop2Step \/ Loop2End

SpecCell == InitCell /\ [][NextCell]_vars

\* C24 as stated: the cell ends without an exception, each loop has printed
\* one line for every parameter, in the order of pars; line i of the first
\* loop and line i of the second have the same half-width and so the same
\* interval; and tval is the one computed from dof = max(0, n - len(pars)),
\* also after p has become a loop variable.
C24_LoopsAgree ==
    /\ pc \notin {"alpha"} =>
         tval = TVal(50000, Dof(Len(y), Len(pars)))
    /\ pc = "end" =>
         /\ err = "none"
         /\ Len(plusminus) = Len(pars) /\ Len(ranges) = Len(pars)
         /\ \A k \in 1..Len(pars) :
              /\ plusminus[k].p = pars[k] /\ ranges[k].p = pars[k]
              /\ ranges[k].i = k - 1
              /\ plusminus[k].ci = ranges[k].ci
              /\ ranges[k].range
                   = <<FSub(Num(pars[k]), plusminus[k].ci),
                       FAdd(Num(pars[k]), plusminus[k].ci)>>

\* The same for fits of two parameters, the number the first loop is
\* written for.
C24_LoopsAgreeForTwo ==
    Len(pars) = 2 => C24_LoopsAgree

\* A fit of one parameter: the first loop prints one line and raises
\* IndexError, and the second loop is not reached.
C24_OneParameter ==
    /\ pc = "end" /\ Len(pars) = 1 /\ Len(y) >= 1
    /\ err = "IndexError"
    /\ Len(plusminus) = 1 /\ ranges = <<>>

\* A fit of two parameters to more than two points: both loops ran, p is a
\* parameter value and no longer the count.
C24_TwoParameters ==
    /\ pc = "end" /\ Len(pars) = 2 /\ Len(y) = 3 /\ err = "none"
    /\ Len(plusminus) = 2 /\ Len(ranges) = 2
    /\ IsNum(ranges[2].ci) /\ ranges[2].ci.v > 0
    /\ p = pars[2] /\ p /= Len(pars)

====
